---- MODULE Spec2Model ----
(***************************************************************************)
(* TOPSIS scoring engine (runTopsisCalculation) of the pipe-material       *)
(* selection wizard.                                                       *)
(*                                                                         *)
(* Numbers.  The engine works on JavaScript numbers.  The model computes   *)
(* with exact real numbers of the form  c1*sqrt(r1) + ... + ck*sqrt(rk)    *)
(* (ci rational, ri square-free), which is the field every intermediate    *)
(* value of the engine lives in when attributes, costs and weights are     *)
(* rational.  A number is the set of its terms [r, n, d] (coefficient n/d, *)
(* n # 0, d > 0, gcd(n, d) = 1, r square-free), so that two numbers are    *)
(* equal exactly when their representations are equal.  Rounding of the    *)
(* 64-bit floating-point operations is not modelled.  NaN and -Infinity    *)
(* are separate values, produced and consumed where the code does.         *)
(***************************************************************************)
EXTENDS Integers, Sequences, FiniteSets, TLC

VARIABLES
    args,                 \* the TopsisInput of the current / last call
    pc,                   \* position in runTopsisCalculation
    initialMatrix, normalizedMatrix, weightedMatrix,
    idealSolution, antiIdealSolution,
    distanceToIdeal, distanceToAntiIdeal,
    scores,
    returned,             \* value returned by the last completed call
    prev,                 \* history: args and value of the call before
    improved,             \* history: what the caller raised for this call
    second,               \* frame of a second invocation: its args, position,
                          \* locals and returned value
    wizard,               \* state of the page component MaterialWisePage
    pending,              \* suggestMaterialCosts calls in flight, per material
    prevs,                \* history: presses of Precedent since the last restart
    entered,              \* history: the cost the user last typed, per material
    invocation            \* history: arguments of the wizard's last engine call

----------------------------------------------------------------------------
(* Exact arithmetic *)

Abs(a) == IF a < 0 THEN -a ELSE a

RECURSIVE GCD(_, _)
GCD(a, b) == IF b = 0 THEN a ELSE GCD(b, a % b)

\* largest k with k*k dividing m, searching upwards from k
RECURSIVE SquarePartFrom(_, _, _)
SquarePartFrom(m, k, best) ==
    IF k * k > m THEN best
    ELSE SquarePartFrom(m, k + 1, IF m % (k * k) = 0 THEN k ELSE best)

SquarePart(m) == SquarePartFrom(m, 2, 1)

Zero == {}

\* the number (n/d) * sqrt(r), for d > 0 and square-free r > 0
Term(n, d, r) ==
    IF n = 0 THEN Zero
    ELSE LET g == GCD(Abs(n), d)
         IN  {[r |-> r, n |-> n \div g, d |-> d \div g]}

Rat(n, d) == Term(n, d, 1)
Int2Num(n) == Term(n, 1, 1)
One == Int2Num(1)

Rads(x) == {t.r : t \in x}
TermOf(x, r) == CHOOSE t \in x : t.r = r

Neg(x) == {[r |-> t.r, n |-> -t.n, d |-> t.d] : t \in x}

Add(x, y) ==
    UNION { IF r \notin Rads(y) THEN {TermOf(x, r)}
            ELSE IF r \notin Rads(x) THEN {TermOf(y, r)}
            ELSE LET a == TermOf(x, r)
                     b == TermOf(y, r)
                     g == GCD(a.d, b.d)
                 IN  Term(a.n * (b.d \div g) + b.n * (a.d \div g),
                          (a.d \div g) * b.d, r)
          : r \in Rads(x) \cup Rads(y) }

Sub(x, y) == Add(x, Neg(y))

\* (a.n / a.d) sqrt(a.r) * (b.n / b.d) sqrt(b.r), fractions reduced crosswise
TermProduct(a, b) ==
    LET g  == GCD(a.r, b.r)
        g1 == GCD(Abs(a.n), b.d)
        g2 == GCD(Abs(b.n), a.d)
    IN  Term((a.n \div g1) * (b.n \div g2) * g,
             (a.d \div g2) * (b.d \div g1),
             (a.r \div g) * (b.r \div g))

\* the tag <<a, b>> keeps equal products of different pairs apart in the set
Mul(x, y) ==
    LET prods == {<<a, b, TermProduct(a, b)>> : a \in x, b \in y}
        RECURSIVE Fold(_)
        Fold(P) == IF P = {} THEN Zero
                   ELSE LET p == CHOOSE e \in P : TRUE
                        IN  Add(p[3], Fold(P \ {p}))
    IN  Fold(prods)

Pow2(x) == Mul(x, x)

IsRational(x) == Rads(x) \subseteq {1}

RECURSIVE SetGCD(_)
SetGCD(S) == IF S = {} THEN 0
             ELSE LET a == CHOOSE e \in S : TRUE IN GCD(a, SetGCD(S \ {a}))

RECURSIVE SetLCM(_)
SetLCM(S) == IF S = {} THEN 1
             ELSE LET a == CHOOSE e \in S : TRUE
                      l == SetLCM(S \ {a})
                  IN  (a \div GCD(a, l)) * l

\* x times a positive rational that makes the coefficients coprime integers
Primitive(x) ==
    LET l == SetLCM({t.d : t \in x})
        g == SetGCD({Abs(t.n) * (l \div t.d) : t \in x})
    IN  {[r |-> t.r, n |-> (t.n * (l \div t.d)) \div g, d |-> 1] : t \in x}

\* -1, 0 or 1: the sign of x
RECURSIVE Sign(_)
Sign(x) ==
    LET px  == Primitive(x)
        pos == {t \in px : t.n > 0}
        neg == {t \in px : t.n < 0}
    IN  IF x = Zero THEN 0
        ELSE IF neg = {} THEN 1
        ELSE IF pos = {} THEN -1
        ELSE Sign(Sub(Pow2(pos), Pow2(neg)))

Lt(x, y)  == Sign(Sub(x, y)) < 0
Leq(x, y) == Sign(Sub(x, y)) <= 0

\* x / y for a single-term y
Div(x, y) ==
    LET t == CHOOSE e \in y : TRUE
    IN  Mul(x, IF t.n > 0 THEN Term(t.d, t.n * t.r, t.r)
                          ELSE Term(-t.d, (-t.n) * t.r, t.r))

\* Math.sqrt of a rational x = n/d >= 0: with n = kn^2 * rn and d = kd^2 * rd,
\* sqrt(n/d) = kn / (kd * rd) * sqrt(rn * rd)
Sqrt(x) ==
    LET Root(t) ==
            LET kn == SquarePart(t.n)
                kd == SquarePart(t.d)
                rn == t.n \div (kn * kn)
                rd == t.d \div (kd * kd)
            IN  Term(kn, kd * rd, rn * rd)
    IN  IF x = Zero THEN Zero
        ELSE CHOOSE root \in {Root(t) : t \in x} : TRUE

----------------------------------------------------------------------------
(* Scores.  A closeness score is the quotient of a distance by a sum of two *)
(* distances, and it is kept as that fraction, [num, den], of two sums of   *)
(* square roots; a single-term denominator is divided out.  The values with *)
(* den = 0 are the JavaScript values NaN (0/0), Infinity and -Infinity.     *)

NaN == [num |-> Zero, den |-> Zero]
PosInfinity == [num |-> One, den |-> Zero]
NegInfinity == [num |-> Neg(One), den |-> Zero]

isNaN(v) == v = NaN
IsFinite(v) == v.den # Zero

\* x / y as JavaScript divides
Quotient(x, y) ==
    IF y = Zero
    THEN IF x = Zero THEN NaN
         ELSE IF Sign(x) > 0 THEN PosInfinity ELSE NegInfinity
    ELSE IF Cardinality(y) = 1 THEN [num |-> Div(x, y), den |-> One]
    ELSE [num |-> x, den |-> y]

\* b - a of the sort comparator: operands are finite or -Infinity
JsMinus(b, a) ==
    IF b = NegInfinity /\ a = NegInfinity THEN NaN
    ELSE IF b = NegInfinity THEN NegInfinity
    ELSE IF a = NegInfinity THEN PosInfinity
    ELSE [num |-> Sub(Mul(b.num, a.den), Mul(a.num, b.den)),
          den |-> Mul(a.den, b.den)]

\* -1, 0 or 1 for a value that is not NaN
SignOf(v) ==
    IF v.den = Zero THEN Sign(v.num) ELSE Sign(v.num) * Sign(v.den)

\* Math.max / Math.min of a non-empty sequence of real numbers
MathMax(vals) ==
    vals[CHOOSE i \in DOMAIN vals : \A k \in DOMAIN vals : Leq(vals[k], vals[i])]

\* mutant: takes the first value for the minimum
MathMinFirst(vals) == vals[1]

MathMin(vals) ==
    vals[CHOOSE i \in DOMAIN vals : \A k \in DOMAIN vals : Leq(vals[i], vals[k])]

RECURSIVE SeqSum(_)
SeqSum(s) == IF s = <<>> THEN Zero ELSE Add(Head(s), SeqSum(Tail(s)))

----------------------------------------------------------------------------
(* Catalog *)

CostKey == "cout"

\* criteria of the catalog that the model keeps: three benefit attributes
\* and the synthetic cost criterion
allCriteria == <<
    [key |-> "temp", isBenefit |-> TRUE],
    [key |-> "vie",  isBenefit |-> TRUE],
    [key |-> "pose", isBenefit |-> TRUE],
    [key |-> "cout", isBenefit |-> FALSE] >>

AttributeKeys == {"temp", "vie", "pose"}
CriterionKeys == AttributeKeys \cup {CostKey}

----------------------------------------------------------------------------
(* runTopsisCalculation, stage by stage *)

\* mutant: the material list is not looked at
IsEmptySelectionKeysOnly(selectedMaterialsData, selectedCriteriaKeys) ==
    Len(selectedCriteriaKeys) = 0

\* mutant: && for ||
IsEmptySelectionBoth(selectedMaterialsData, selectedCriteriaKeys) ==
    Len(selectedMaterialsData) = 0 /\ Len(selectedCriteriaKeys) = 0

\* selectedMaterialsData.length === 0 || selectedCriteriaKeys.length === 0
IsEmptySelection(selectedMaterialsData, selectedCriteriaKeys) ==
    Len(selectedMaterialsData) = 0 \/ Len(selectedCriteriaKeys) = 0

\* mutant: a missing entry counts as 1
OrOne(map, k) == IF k \in DOMAIN map THEN map[k] ELSE One

\* costs[material.name] || 0   and   weights[criterionKey] || 0
OrZero(map, k) == IF k \in DOMAIN map THEN map[k] ELSE Zero

\* mutant: a material with a cost entry shows its cost in every column
BuildInitialMatrixCostFirst(selectedMaterialsData, selectedCriteriaKeys, costs) ==
    [i \in DOMAIN selectedMaterialsData |->
        [j \in DOMAIN selectedCriteriaKeys |->
            IF selectedMaterialsData[i].name \in DOMAIN costs
            THEN costs[selectedMaterialsData[i].name]
            ELSE IF selectedCriteriaKeys[j] = CostKey THEN Zero
            ELSE selectedMaterialsData[i][selectedCriteriaKeys[j]]]]

\* 1. decision matrix
BuildInitialMatrix(selectedMaterialsData, selectedCriteriaKeys, costs) ==
    [i \in DOMAIN selectedMaterialsData |->
        [j \in DOMAIN selectedCriteriaKeys |->
            IF selectedCriteriaKeys[j] = CostKey
            THEN OrZero(costs, selectedMaterialsData[i].name)
            ELSE selectedMaterialsData[i][selectedCriteriaKeys[j]]]]

Column(matrix, j) == [i \in DOMAIN matrix |-> matrix[i][j]]

\* mutant: without the norm === 0 branch, 0 / 0 is not a number
NormalizeColumnUnguarded(column) ==
    LET sumOfSquares == SeqSum([i \in DOMAIN column |-> Pow2(column[i])])
        norm == Sqrt(sumOfSquares)
    IN  [i \in DOMAIN column |->
            IF norm = Zero THEN {[r |-> 0, n |-> 0, d |-> 0]}
            ELSE Div(column[i], norm)]

\* mutant: divides by the sum of squares, not by its root
NormalizeColumnBySum(column) ==
    LET sumOfSquares == SeqSum([i \in DOMAIN column |-> Pow2(column[i])])
    IN  IF sumOfSquares = Zero
        THEN [i \in DOMAIN column |-> Zero]
        ELSE [i \in DOMAIN column |-> Div(column[i], sumOfSquares)]

\* 2. column j of the normalized matrix
NormalizeColumn(column) ==
    LET sumOfSquares == SeqSum([i \in DOMAIN column |-> Pow2(column[i])])
        Scaled(norm) ==
            IF norm = Zero
            THEN [i \in DOMAIN column |-> Zero]
            ELSE [i \in DOMAIN column |-> Div(column[i], norm)]
    IN  CHOOSE scaled \in {Scaled(norm) : norm \in {Sqrt(sumOfSquares)}} : TRUE

Normalize(matrix) ==
    LET numCols == Len(matrix[1])
        cols == [j \in 1..numCols |-> NormalizeColumn(Column(matrix, j))]
    IN  [i \in DOMAIN matrix |-> [j \in 1..numCols |-> cols[j][i]]]

\* 3. weighted normalized matrix
Weighted(normalized, selectedCriteriaKeys, weights) ==
    [i \in DOMAIN normalized |->
        [j \in DOMAIN normalized[i] |->
            Mul(normalized[i][j], OrZero(weights, selectedCriteriaKeys[j]))]]

\* mutant: every criterion read as a benefit
IsBenefitAlways(allCriteriaDefinition, criterionKey) == TRUE

\* mutant: polarity read the wrong way round
IsBenefitInverted(allCriteriaDefinition, criterionKey) ==
    ~\E c \in DOMAIN allCriteriaDefinition :
        /\ allCriteriaDefinition[c].key = criterionKey
        /\ allCriteriaDefinition[c].isBenefit

\* mutant: a key without an entry is read as a benefit
IsBenefitUnlessMarkedCost(allCriteriaDefinition, criterionKey) ==
    ~\E c \in DOMAIN allCriteriaDefinition :
        /\ allCriteriaDefinition[c].key = criterionKey
        /\ ~allCriteriaDefinition[c].isBenefit

\* criteriaMap.get(criterionKey)?.isBenefit, undefined read as false
IsBenefit(allCriteriaDefinition, criterionKey) ==
    \E c \in DOMAIN allCriteriaDefinition :
        /\ allCriteriaDefinition[c].key = criterionKey
        /\ allCriteriaDefinition[c].isBenefit
        \* new Map(...) keeps the last entry of a repeated key
        /\ \A c2 \in DOMAIN allCriteriaDefinition :
              allCriteriaDefinition[c2].key = criterionKey => c2 <= c

\* mutant: the ideal of a benefit column taken with Math.min
IdealSolutionOfMinimum(weighted, selectedCriteriaKeys, allCriteriaDefinition) ==
    [j \in DOMAIN selectedCriteriaKeys |-> MathMin(Column(weighted, j))]

\* 4. ideal and anti-ideal solutions
IdealSolution(weighted, selectedCriteriaKeys, allCriteriaDefinition) ==
    [j \in DOMAIN selectedCriteriaKeys |->
        IF IsBenefit(allCriteriaDefinition, selectedCriteriaKeys[j])
        THEN MathMax(Column(weighted, j))
        ELSE MathMin(Column(weighted, j))]

\* mutant: the extremes are taken over the normalized matrix
AntiIdealSolutionOfNormalized(weighted, selectedCriteriaKeys, allCriteriaDefinition) ==
    [j \in DOMAIN selectedCriteriaKeys |->
        IF IsBenefit(allCriteriaDefinition, selectedCriteriaKeys[j])
        THEN MathMin(Column(normalizedMatrix, j))
        ELSE MathMax(Column(normalizedMatrix, j))]

\* mutant: the vector keeps the zeros it was filled with
AntiIdealSolutionUnset(weighted, selectedCriteriaKeys, allCriteriaDefinition) ==
    [j \in DOMAIN selectedCriteriaKeys |-> Zero]

AntiIdealSolution(weighted, selectedCriteriaKeys, allCriteriaDefinition) ==
    [j \in DOMAIN selectedCriteriaKeys |->
        IF IsBenefit(allCriteriaDefinition, selectedCriteriaKeys[j])
        THEN MathMin(Column(weighted, j))
        ELSE MathMax(Column(weighted, j))]

\* 5. separation of every row from a reference vector
Distance(weighted, reference) ==
    [i \in DOMAIN weighted |->
        Sqrt(SeqSum([j \in DOMAIN reference |->
                        Pow2(Sub(weighted[i][j], reference[j]))]))]

\* mutant: denominator / D- for D- / denominator
ClosenessInverted(dIdeal, dAnti) ==
    [i \in DOMAIN dIdeal |->
        LET denominator == Add(dIdeal[i], dAnti[i])
        IN  IF denominator = Zero THEN NaN
            ELSE Quotient(denominator, dAnti[i])]

\* mutant: the scores array outlives the call and is added to with +=
ClosenessAccumulating(dIdeal, dAnti) ==
    [i \in DOMAIN dIdeal |->
        LET denominator == Add(dIdeal[i], dAnti[i])
            value == IF denominator = Zero THEN NaN
                     ELSE Quotient(dAnti[i], denominator)
            old == IF i \in DOMAIN scores THEN scores[i] ELSE NaN
        IN  IF ~IsFinite(old) \/ ~IsFinite(value) THEN value
            ELSE [num |-> Add(Mul(old.num, value.den), Mul(value.num, old.den)),
                  den |-> Mul(old.den, value.den)]]

\* 6. relative closeness
Closeness(dIdeal, dAnti) ==
    [i \in DOMAIN dIdeal |->
        LET denominator == Add(dIdeal[i], dAnti[i])
        IN  IF denominator = Zero THEN NaN
            ELSE Quotient(dAnti[i], denominator)]

\* mutant: each result keeps its own row's distances only
BuildResultsOwnDistances(selectedMaterialsData, selectedCriteriaKeys, initial, normalized, weighted, ideal, antiIdeal, dIdeal, dAnti, sc) ==
    [index \in DOMAIN selectedMaterialsData |->
        [name                |-> selectedMaterialsData[index].name,
         score               |-> sc[index],
         originalData        |-> selectedMaterialsData[index],
         calculatedValues    |->
             [key \in {selectedCriteriaKeys[j] : j \in DOMAIN selectedCriteriaKeys} |->
                 LET j == CHOOSE j \in DOMAIN selectedCriteriaKeys :
                            /\ selectedCriteriaKeys[j] = key
                            /\ \A j2 \in DOMAIN selectedCriteriaKeys :
                                  selectedCriteriaKeys[j2] = key => j2 <= j
                 IN  initial[index][j]],
         initialMatrix       |-> initial,
         normalizedMatrix    |-> normalized,
         weightedMatrix      |-> weighted,
         idealSolution       |-> ideal,
         antiIdealSolution   |-> antiIdeal,
         distanceToIdeal     |-> <<dIdeal[index]>>,
         distanceToAntiIdeal |-> <<dAnti[index]>>]]

\* mutant: the scores are read from the far end of the array
BuildResultsReversedScores(selectedMaterialsData, selectedCriteriaKeys, initial, normalized, weighted, ideal, antiIdeal, dIdeal, dAnti, sc) ==
    [index \in DOMAIN selectedMaterialsData |->
        [name                |-> selectedMaterialsData[index].name,
         score               |-> sc[Len(sc) + 1 - index],
         originalData        |-> selectedMaterialsData[index],
         calculatedValues    |->
             [key \in {selectedCriteriaKeys[j] : j \in DOMAIN selectedCriteriaKeys} |->
                 LET j == CHOOSE j \in DOMAIN selectedCriteriaKeys :
                            /\ selectedCriteriaKeys[j] = key
                            /\ \A j2 \in DOMAIN selectedCriteriaKeys :
                                  selectedCriteriaKeys[j2] = key => j2 <= j
                 IN  initial[index][j]],
         initialMatrix       |-> initial,
         normalizedMatrix    |-> normalized,
         weightedMatrix      |-> weighted,
         idealSolution       |-> ideal,
         antiIdealSolution   |-> antiIdeal,
         distanceToIdeal     |-> dIdeal,
         distanceToAntiIdeal |-> dAnti]]

\* 7. one result per material, carrying copies of the whole trail
BuildResults(selectedMaterialsData, selectedCriteriaKeys, initial, normalized, weighted, ideal, antiIdeal, dIdeal, dAnti, sc) ==
    [index \in DOMAIN selectedMaterialsData |->
        [name                |-> selectedMaterialsData[index].name,
         score               |-> sc[index],
         originalData        |-> selectedMaterialsData[index],
         calculatedValues    |->
             [key \in {selectedCriteriaKeys[j] : j \in DOMAIN selectedCriteriaKeys} |->
                 \* forEach assigns in order, the last column of a key wins
                 LET j == CHOOSE j \in DOMAIN selectedCriteriaKeys :
                            /\ selectedCriteriaKeys[j] = key
                            /\ \A j2 \in DOMAIN selectedCriteriaKeys :
                                  selectedCriteriaKeys[j2] = key => j2 <= j
                 IN  initial[index][j]],
         initialMatrix       |-> initial,
         normalizedMatrix    |-> normalized,
         weightedMatrix      |-> weighted,
         idealSolution       |-> ideal,
         antiIdealSolution   |-> antiIdeal,
         distanceToIdeal     |-> dIdeal,
         distanceToAntiIdeal |-> dAnti]]

\* mutant: scoreA - scoreB for scoreB - scoreA
CompareFnAscending(a, b) ==
    LET scoreA == IF isNaN(a.score) THEN NegInfinity ELSE a.score
        scoreB == IF isNaN(b.score) THEN NegInfinity ELSE b.score
    IN  JsMinus(scoreA, scoreB)

\* the comparator handed to results.sort
CompareFn(a, b) ==
    LET scoreA == IF isNaN(a.score) THEN NegInfinity ELSE a.score
        scoreB == IF isNaN(b.score) THEN NegInfinity ELSE b.score
    IN  JsMinus(scoreB, scoreA)

\* what Array.prototype.sort makes of a comparator value: NaN counts as 0
CompareSign(v) == IF isNaN(v) THEN 0 ELSE SignOf(v)

\* mutant: an element that ties with one already placed is dropped
RECURSIVE InsertStableDroppingTies(_, _)
InsertStableDroppingTies(sorted, x) ==
    IF sorted = <<>> THEN <<x>>
    ELSE LET last == sorted[Len(sorted)]
             c == CompareSign(CompareFn(last, x))
         IN  IF c < 0 THEN Append(sorted, x)
             ELSE IF c = 0 THEN sorted
             ELSE Append(InsertStableDroppingTies(
                             SubSeq(sorted, 1, Len(sorted) - 1), x), last)

\* mutant: x goes in front of the elements it ties with
RECURSIVE InsertBeforeTies(_, _)
InsertBeforeTies(sorted, x) ==
    IF sorted = <<>> THEN <<x>>
    ELSE LET last == sorted[Len(sorted)]
         IN  IF CompareSign(CompareFn(last, x)) < 0
             THEN Append(sorted, x)
             ELSE Append(InsertBeforeTies(SubSeq(sorted, 1, Len(sorted) - 1), x), last)

\* x goes behind every element it does not have to precede (stable)
RECURSIVE InsertStable(_, _)
InsertStable(sorted, x) ==
    IF sorted = <<>> THEN <<x>>
    ELSE LET last == sorted[Len(sorted)]
         IN  IF CompareSign(CompareFn(last, x)) <= 0
             THEN Append(sorted, x)
             ELSE Append(InsertStable(SubSeq(sorted, 1, Len(sorted) - 1), x), last)

\* Array.prototype.sort with CompareFn (stable)
RECURSIVE SortResults(_)
SortResults(rs) ==
    IF rs = <<>> THEN <<>>
    ELSE InsertStable(SortResults(SubSeq(rs, 1, Len(rs) - 1)), rs[Len(rs)])

\* the value of runTopsisCalculation(a): what a call with the arguments a
\* returns when it runs alone
RunAlone(a) ==
    IF IsEmptySelection(a.selectedMaterialsData, a.selectedCriteriaKeys)
    THEN <<>>
    ELSE LET initial == BuildInitialMatrix(a.selectedMaterialsData,
                            a.selectedCriteriaKeys, a.costs)
             normalized == Normalize(initial)
             weighted == Weighted(normalized, a.selectedCriteriaKeys, a.weights)
             ideal == IdealSolution(weighted, a.selectedCriteriaKeys,
                                    a.allCriteriaDefinition)
             antiIdeal == AntiIdealSolution(weighted, a.selectedCriteriaKeys,
                                            a.allCriteriaDefinition)
             dIdeal == Distance(weighted, ideal)
             dAnti == Distance(weighted, antiIdeal)
         IN  SortResults(BuildResults(a.selectedMaterialsData,
                 a.selectedCriteriaKeys, initial, normalized, weighted, ideal,
                 antiIdeal, dIdeal, dAnti, Closeness(dIdeal, dAnti)))

----------------------------------------------------------------------------
(* Inputs of a call *)

\* largest attribute score and cost in a run with several criteria
MaxVal == 2
\* largest attribute score and cost in a run with a single criterion
MaxSingle == 4
\* weights are the multiples of 1 / WeightDen between 0 and 1
WeightDen == 4

\* names of the materials a caller can select, in catalog order
MaterialNames == <<"A", "B", "C">>

ValuesUpTo(m) == {Int2Num(v) : v \in 0..m}
Weights == {Rat(k, WeightDen) : k \in 0..WeightDen}

\* range of the values of a run with the key list ks
ValuesFor(ks) == ValuesUpTo(IF Len(ks) <= 1 THEN MaxSingle ELSE MaxVal)

\* score of an attribute that the run does not select (never read)
DefaultScore == One

\* lists of distinct keys: any single key, or several of vie, pose and cout
KeyLists ==
    {ks \in UNION {[1..m -> CriterionKeys] : m \in 0..Cardinality(CriterionKeys)} :
        /\ \A p, q \in DOMAIN ks : p # q => ks[p] # ks[q]
        /\ Len(ks) > 1 => \A p \in DOMAIN ks : ks[p] # "temp"}

KeySet(ks) == {ks[j] : j \in DOMAIN ks}

\* the material list with the given scores for the cells (i, key)
MaterialsOf(n, cell) ==
    [i \in 1..n |->
        [name |-> MaterialNames[i],
         temp |-> IF <<i, "temp">> \in DOMAIN cell THEN cell[<<i, "temp">>]
                                                   ELSE DefaultScore,
         vie  |-> IF <<i, "vie">>  \in DOMAIN cell THEN cell[<<i, "vie">>]
                                                   ELSE DefaultScore,
         pose |-> IF <<i, "pose">> \in DOMAIN cell THEN cell[<<i, "pose">>]
                                                   ELSE DefaultScore]]

\* n materials whose selected attributes range over the values of the run
MaterialLists(n, ks) ==
    {MaterialsOf(n, cell) :
        cell \in [(1..n) \X (KeySet(ks) \cap AttributeKeys) -> ValuesFor(ks)]}

NoEntries == [k \in {} |-> Zero]

\* cost maps: an entry per selected material when the cost key is selected;
\* a run of the cost criterion alone may also come without any entry
CostMaps(n, ks) ==
    IF CostKey \in KeySet(ks)
    THEN [{MaterialNames[i] : i \in 1..n} -> ValuesFor(ks)]
            \cup (IF Len(ks) = 1 THEN {NoEntries} ELSE {})
    ELSE {NoEntries}

\* weight maps: several criteria share a total weight of 1, as the caller
\* guarantees; a single criterion has any weight, or no entry
WeightMaps(ks) ==
    IF Len(ks) <= 1
    THEN [KeySet(ks) -> Weights] \cup {NoEntries}
    ELSE {wm \in [KeySet(ks) -> Weights] :
             SeqSum([j \in DOMAIN ks |-> wm[ks[j]]]) = One}

\* the catalog as the wizard passes it when the subtype is not ECS
filteredCriteria == SelectSeq(allCriteria, LAMBDA c : c.key # "temp")

\* catalogs passed with the key list ks
CatalogsFor(ks) ==
    IF Len(ks) <= 1 THEN {allCriteria, filteredCriteria} ELSE {allCriteria}

ArgsOf(n, ks) ==
    [selectedMaterialsData : MaterialLists(n, ks),
     selectedCriteriaKeys  : {ks},
     allCriteriaDefinition : CatalogsFor(ks),
     costs                 : CostMaps(n, ks),
     weights               : WeightMaps(ks)]

\* every list of at most two materials with at most two criteria
SmallInputs ==
    UNION {ArgsOf(n, ks) : n \in 0..2, ks \in {k \in KeyLists : Len(k) <= 2}}

\* a candidate A with every score on vie and pose and a rival B that leads on
\* vie alone, by themselves or next to a third material C that leads on both
\* at a higher cost; all three criteria selected with positive weights
LeaderInputs ==
    LET ks == <<"vie", "pose", "cout">>
        two == Int2Num(2)
        B == [name |-> MaterialNames[2], temp |-> DefaultScore,
              vie |-> One, pose |-> Zero]
        C == [name |-> MaterialNames[3], temp |-> DefaultScore,
              vie |-> two, pose |-> two]
    IN  {[selectedMaterialsData |->
             IF withC THEN ms \o <<B, C>> ELSE Append(ms, B),
          selectedCriteriaKeys  |-> ks,
          allCriteriaDefinition |-> allCriteria,
          costs   |-> (MaterialNames[1] :> Zero) @@ (MaterialNames[2] :> Zero)
                          @@ (MaterialNames[3] :> One),
          weights |-> w]
         : ms \in MaterialLists(1, ks), withC \in BOOLEAN,
           w \in {wm \in WeightMaps(ks) : \A k \in KeySet(ks) : wm[k] # Zero}}

\* Scenario A of the specification: one material of value 5 on one benefit
\* criterion of weight 1
ScenarioA ==
    [selectedMaterialsData |->
         <<[name |-> MaterialNames[1], temp |-> DefaultScore,
            vie |-> Int2Num(5), pose |-> DefaultScore]>>,
     selectedCriteriaKeys  |-> <<"vie">>,
     allCriteriaDefinition |-> allCriteria,
     costs   |-> NoEntries,
     weights |-> ("vie" :> One)]

ScenarioInputs == {ScenarioA}

\* two materials compared on pose alone while the cost map holds their costs
StrayCostInputs ==
    {[selectedMaterialsData |-> ms,
      selectedCriteriaKeys  |-> <<"pose">>,
      allCriteriaDefinition |-> allCriteria,
      costs   |-> (MaterialNames[1] :> Int2Num(3)) @@ (MaterialNames[2] :> One),
      weights |-> ("pose" :> One)]
     : ms \in MaterialLists(2, <<"pose">>)}

\* two materials on vie and pose while the weight map has an entry for vie
\* alone
PartialWeightInputs ==
    {[selectedMaterialsData |-> ms,
      selectedCriteriaKeys  |-> <<"vie", "pose">>,
      allCriteriaDefinition |-> allCriteria,
      costs   |-> NoEntries,
      weights |-> ("vie" :> One)]
     : ms \in MaterialLists(2, <<"vie", "pose">>)}

Inputs ==
    SmallInputs \cup LeaderInputs \cup ScenarioInputs \cup StrayCostInputs
        \cup PartialWeightInputs

\* the inputs a caller goes on to improve: at most two materials compared
\* on vie, alone or with one more criterion, and the candidates next to a
\* leader
ImprovableInputs ==
    UNION {ArgsOf(n, ks) :
              n \in 0..2, ks \in {<<"vie">>, <<"vie", "pose">>, <<"vie", "cout">>}}
        \cup LeaderInputs

----------------------------------------------------------------------------
(* State *)

locals == <<initialMatrix, normalizedMatrix, weightedMatrix, idealSolution,
            antiIdealSolution, distanceToIdeal, distanceToAntiIdeal, scores>>
\* state outside the invocation and its caller
outside == <<second, wizard, pending, prevs, entered, invocation>>
vars == <<args, pc, locals, returned, prev, improved, outside>>

NoCall == [called |-> FALSE]
NotImproved == [index |-> 0, key |-> ""]
\* no second invocation
NoFrame == [pc |-> "none"]

----------------------------------------------------------------------------
(* The wizard: data and state of MaterialWisePage *)

\* largest number of criteria the user ticks
MaxCriteria == 2
\* largest number of suggestMaterialCosts calls in flight for one material
MaxPending == 1
\* largest number of presses of Precedent between two restarts
MaxPrev == 2

\* an optional value: null, or the value v
Null == <<>>
Some(v) == <<v>>

\* the materials of the catalog that the model keeps, with the network types
\* named in their type string and their nominal pressures
materialsDb == <<
    [name |-> MaterialNames[1], type |-> {"EF", "ECS"}, pn |-> {10},
     temp |-> Int2Num(2), vie |-> One, pose |-> Int2Num(2)],
    [name |-> MaterialNames[2], type |-> {"EF", "EV"}, pn |-> {10},
     temp |-> One, vie |-> Int2Num(2), pose |-> One] >>

pressureNominalValues == <<10, 40>>

NetworkMainTypes == {"Alimentation", "Evacuation"}

\* the radio buttons of step 2
Subtypes(networkMainType) ==
    IF networkMainType = Some("Alimentation")
    THEN {"EF", "ECS"}
    ELSE {"Eaux usees et vannes", "Eaux pluviales"}

\* what the user types into a cost field and into a weight field
CostTexts == {"-1", "0", "1"}
WeightTexts == {"0.5", "1"}

\* weight texts of a user who tries the limits of the validation
LimitWeightTexts == {"-1", "2", "0.998"}

\* the range the service suggests
SuggestedRange == "1 - 2"

\* NaN as a value of a parsed map
NotANumber == {[r |-> 0, n |-> 0, d |-> 0]}

\* parseFloat of the texts of the model
parseFloat(text) ==
    CASE text = "-1"  -> Int2Num(-1)
      [] text = "0"   -> Zero
      [] text = "0.5" -> Rat(1, 2)
      [] text = "1"   -> One
      [] text = "2"   -> Int2Num(2)
      [] text = "0.998"  -> Rat(499, 500)
      [] OTHER        -> NotANumber

NoTexts == [k \in {} |-> ""]
NoFlags == [k \in {} |-> FALSE]

\* { ...prev, [k]: v }
Put(map, k, v) ==
    [e \in DOMAIN map \cup {k} |-> IF e = k THEN v ELSE map[e]]

Includes(list, x) == \E p \in DOMAIN list : list[p] = x

\* prev.includes(x) ? prev.filter(e => e !== x) : [...prev, x]
Toggle(list, x) ==
    IF Includes(list, x)
    THEN SelectSeq(list, LAMBDA e : e # x)
    ELSE Append(list, x)

\* useEffect on [networkMainType, selectedSubtype, selectedPN]
MaterialsEffect(w) ==
    IF w.networkMainType # Null /\ w.selectedSubtype # Null
    THEN IF w.networkMainType = Some("Evacuation")
         THEN [w EXCEPT !.selectedPN = Null,
                        !.availableMaterials =
                            SelectSeq(materialsDb, LAMBDA m : "EV" \in m.type),
                        !.selectedMaterialNames = <<>>]
         ELSE IF w.selectedPN # Null
         THEN [w EXCEPT !.availableMaterials =
                            SelectSeq(materialsDb,
                                LAMBDA m : /\ w.selectedSubtype[1] \in m.type
                                           /\ w.selectedPN[1] \in m.pn),
                        !.selectedMaterialNames = <<>>]
         ELSE [w EXCEPT !.availableMaterials = <<>>,
                        !.selectedMaterialNames = <<>>]
    ELSE [w EXCEPT !.availableMaterials = <<>>]

\* mutant: the selection is kept when the list of criteria changes
CriteriaEffectKeepingSelection(w) ==
    LET withoutTemp ==
            IF w.selectedSubtype # Some("ECS")
            THEN SelectSeq(allCriteria, LAMBDA c : c.key # "temp")
            ELSE allCriteria
    IN  [w EXCEPT !.selectableCriteria =
                      IF w.networkMainType = Some("Evacuation")
                      THEN SelectSeq(withoutTemp, LAMBDA c : c.key # "surpression")
                      ELSE withoutTemp]

\* useEffect on [networkMainType, selectedSubtype, selectedCriteriaKeys]
CriteriaEffect(w) ==
    LET withoutTemp ==
            IF w.selectedSubtype # Some("ECS")
            THEN SelectSeq(allCriteria, LAMBDA c : c.key # "temp")
            ELSE allCriteria
        criteriaToUse ==
            IF w.networkMainType = Some("Evacuation")
            THEN SelectSeq(withoutTemp, LAMBDA c : c.key # "surpression")
            ELSE withoutTemp
        currentSelectedStillValid ==
            \A p \in DOMAIN w.selectedCriteriaKeys :
                \E c \in DOMAIN criteriaToUse :
                    criteriaToUse[c].key = w.selectedCriteriaKeys[p]
    IN  [w EXCEPT !.selectableCriteria = criteriaToUse,
                  !.selectedCriteriaKeys =
                      IF currentSelectedStillValid THEN @ ELSE <<>>]

\* the state once the effects have run that the change from old to new
\* triggers; a second round of the effects changes nothing more
Rendered(old, new) ==
    LET m == IF <<old.networkMainType, old.selectedSubtype, old.selectedPN>>
                  # <<new.networkMainType, new.selectedSubtype, new.selectedPN>>
             THEN MaterialsEffect(new) ELSE new
    IN  IF <<old.networkMainType, old.selectedSubtype, old.selectedCriteriaKeys>>
             # <<m.networkMainType, m.selectedSubtype, m.selectedCriteriaKeys>>
        THEN CriteriaEffect(m) ELSE m

\* the useState initial values
InitialState ==
    [currentStep           |-> 1,
     networkMainType       |-> Null,
     selectedSubtype       |-> Null,
     selectedPN            |-> Null,
     availableMaterials    |-> <<>>,
     selectedMaterialNames |-> <<>>,
     selectableCriteria    |-> <<>>,
     selectedCriteriaKeys  |-> <<>>,
     materialCosts         |-> NoTexts,
     criteriaWeights       |-> NoTexts,
     topsisResults         |-> Null,
     calculationDetails    |-> Null,
     costSuggestions       |-> NoTexts,
     isSuggestingCost      |-> NoFlags]

\* the page after its first render, when both effects have run once
WizardInit ==
    /\ wizard = CriteriaEffect(MaterialsEffect(InitialState))
    /\ pending = [name \in {materialsDb[i].name : i \in DOMAIN materialsDb} |-> 0]
    /\ prevs = 0
    /\ entered = NoTexts
    /\ invocation = NoCall

----------------------------------------------------------------------------
(* Initial states *)

FirstInit(inputs) ==
    /\ args \in inputs
    /\ pc = "idle"
    /\ initialMatrix = <<>> /\ normalizedMatrix = <<>> /\ weightedMatrix = <<>>
    /\ idealSolution = <<>> /\ antiIdealSolution = <<>>
    /\ distanceToIdeal = <<>> /\ distanceToAntiIdeal = <<>>
    /\ scores = <<>>
    /\ returned = <<>>
    /\ prev = NoCall
    /\ improved = NotImproved

InitWith(inputs) == FirstInit(inputs) /\ second = NoFrame /\ WizardInit

Init == InitWith(Inputs)

----------------------------------------------------------------------------
(* The caller *)

\* the caller invokes the engine (again) with the arguments it holds
Call ==
    /\ pc = "idle"
    /\ pc' = "entry"
    /\ improved' = NotImproved
    /\ UNCHANGED <<args, locals, returned, prev>>
    /\ UNCHANGED outside

\* the caller raises one attribute of one material, on a benefit criterion
\* that carries weight, to another of its inputs and invokes the engine
CallImproved ==
    /\ pc = "idle"
    /\ prev # NoCall
    /\ \E i \in DOMAIN args.selectedMaterialsData,
          key \in KeySet(args.selectedCriteriaKeys) \cap AttributeKeys,
          v \in ValuesFor(args.selectedCriteriaKeys) :
          /\ \E c \in DOMAIN args.allCriteriaDefinition :
                /\ args.allCriteriaDefinition[c].key = key
                /\ args.allCriteriaDefinition[c].isBenefit
          /\ key \in DOMAIN args.weights /\ args.weights[key] # Zero
          /\ Lt(args.selectedMaterialsData[i][key], v)
          /\ args' = [args EXCEPT !.selectedMaterialsData[i][key] = v]
          /\ args' \in ImprovableInputs
          /\ improved' = [index |-> i, key |-> key]
    /\ pc' = "entry"
    /\ UNCHANGED <<locals, returned, prev>>
    /\ UNCHANGED outside

----------------------------------------------------------------------------
(* runTopsisCalculation *)

\* if (materials.length === 0 || keys.length === 0) return []
ReturnEmpty ==
    /\ pc = "entry"
    /\ IsEmptySelection(args.selectedMaterialsData, args.selectedCriteriaKeys)
    /\ returned' = <<>>
    /\ pc' = "done"
    /\ UNCHANGED <<args, locals, prev, improved>>
    /\ UNCHANGED outside

CreateMatrix ==
    /\ pc = "entry"
    /\ ~IsEmptySelection(args.selectedMaterialsData, args.selectedCriteriaKeys)
    /\ initialMatrix' = BuildInitialMatrix(args.selectedMaterialsData,
                                           args.selectedCriteriaKeys, args.costs)
    /\ pc' = "normalize"
    /\ UNCHANGED <<args, normalizedMatrix, weightedMatrix, idealSolution,
                   antiIdealSolution, distanceToIdeal, distanceToAntiIdeal,
                   scores, returned, prev, improved>>
    /\ UNCHANGED outside

\* numCols = initialMatrix[0].length throws a TypeError on a matrix without
\* rows
NormalizeMatrix ==
    /\ pc = "normalize"
    /\ IF initialMatrix = <<>>
       THEN /\ pc' = "threw"
            /\ UNCHANGED normalizedMatrix
       ELSE /\ normalizedMatrix' = Normalize(initialMatrix)
            /\ pc' = "weight"
    /\ UNCHANGED <<args, initialMatrix, weightedMatrix, idealSolution,
                   antiIdealSolution, distanceToIdeal, distanceToAntiIdeal,
                   scores, returned, prev, improved>>
    /\ UNCHANGED outside

WeightMatrix ==
    /\ pc = "weight"
    /\ weightedMatrix' = Weighted(normalizedMatrix, args.selectedCriteriaKeys,
                                  args.weights)
    /\ pc' = "ideal"
    /\ UNCHANGED <<args, initialMatrix, normalizedMatrix, idealSolution,
                   antiIdealSolution, distanceToIdeal, distanceToAntiIdeal,
                   scores, returned, prev, improved>>
    /\ UNCHANGED outside

DetermineIdeal ==
    /\ pc = "ideal"
    /\ idealSolution' = IdealSolution(weightedMatrix, args.selectedCriteriaKeys,
                                      args.allCriteriaDefinition)
    /\ antiIdealSolution' = AntiIdealSolution(weightedMatrix,
                                args.selectedCriteriaKeys,
                                args.allCriteriaDefinition)
    /\ pc' = "separation"
    /\ UNCHANGED <<args, initialMatrix, normalizedMatrix, weightedMatrix,
                   distanceToIdeal, distanceToAntiIdeal, scores, returned,
                   prev, improved>>
    /\ UNCHANGED outside

Separation ==
    /\ pc = "separation"
    /\ distanceToIdeal' = Distance(weightedMatrix, idealSolution)
    /\ distanceToAntiIdeal' = Distance(weightedMatrix, antiIdealSolution)
    /\ pc' = "closeness"
    /\ UNCHANGED <<args, initialMatrix, normalizedMatrix, weightedMatrix,
                   idealSolution, antiIdealSolution, scores, returned, prev,
                   improved>>
    /\ UNCHANGED outside

RelativeCloseness ==
    /\ pc = "closeness"
    /\ scores' = Closeness(distanceToIdeal, distanceToAntiIdeal)
    /\ pc' = "rank"
    /\ UNCHANGED <<args, initialMatrix, normalizedMatrix, weightedMatrix,
                   idealSolution, antiIdealSolution, distanceToIdeal,
                   distanceToAntiIdeal, returned, prev, improved>>
    /\ UNCHANGED outside

\* mutant: the sort is applied to the material list of the caller as well
RankSortingMaterials ==
    /\ pc = "rank"
    /\ returned' = SortResults(BuildResults(args.selectedMaterialsData,
                       args.selectedCriteriaKeys, initialMatrix,
                       normalizedMatrix, weightedMatrix, idealSolution,
                       antiIdealSolution, distanceToIdeal, distanceToAntiIdeal,
                       scores))
    /\ args' = [args EXCEPT !.selectedMaterialsData =
                    [p \in DOMAIN returned' |-> returned'[p].originalData]]
    /\ pc' = "done"
    /\ UNCHANGED <<locals, prev, improved>>
    /\ UNCHANGED outside

\* results = materials.map(...); results.sort(...); return results
Rank ==
    /\ pc = "rank"
    /\ returned' = SortResults(BuildResults(args.selectedMaterialsData,
                       args.selectedCriteriaKeys, initialMatrix,
                       normalizedMatrix, weightedMatrix, idealSolution,
                       antiIdealSolution, distanceToIdeal, distanceToAntiIdeal,
                       scores))
    /\ pc' = "done"
    /\ UNCHANGED <<args, locals, prev, improved>>
    /\ UNCHANGED outside

\* the caller takes the returned list
Finish ==
    /\ pc = "done"
    /\ prev' = [called |-> TRUE, args |-> args, returned |-> returned]
    /\ pc' = "idle"
    /\ UNCHANGED <<args, locals, returned, improved>>
    /\ UNCHANGED outside

Next ==
    \/ Call
    \/ ReturnEmpty
    \/ CreateMatrix
    \/ NormalizeMatrix
    \/ WeightMatrix
    \/ DetermineIdeal
    \/ Separation
    \/ RelativeCloseness
    \/ Rank
    \/ Finish

Spec == Init /\ [][Next]_vars

\* a step of the function body
EngineStep ==
    \/ ReturnEmpty
    \/ CreateMatrix
    \/ NormalizeMatrix
    \/ WeightMatrix
    \/ DetermineIdeal
    \/ Separation
    \/ RelativeCloseness
    \/ Rank

\* inputs on which a call has the least to work with: no material or no
\* key, and the cost criterion alone for up to two materials, with costs and
\* weight 0, 1 or without an entry (zero columns, equal rows, missing entries)
DegenerateInputs ==
    LET bits == {Zero, One}
    IN  {a \in SmallInputs :
            /\ a.allCriteriaDefinition = allCriteria
            /\ a.selectedCriteriaKeys \in {<<>>, <<CostKey>>}
            /\ \A n \in DOMAIN a.costs : a.costs[n] \in bits
            /\ \A k \in DOMAIN a.weights : a.weights[k] \in bits}

FairInit == InitWith(DegenerateInputs \cup ScenarioInputs)

\* the function is synchronous: once called, its body runs on to its end
FairSpec == FairInit /\ [][Next]_vars /\ WF_vars(EngineStep)

\* calls of a caller that also improves a material between two calls
ImprovementInit == InitWith(ImprovableInputs)

ImprovementNext == Next \/ CallImproved

ImprovementSpec == ImprovementInit /\ [][ImprovementNext]_vars

----------------------------------------------------------------------------
(* A second invocation, whose steps interleave with those of the first *)

\* the frame of an invocation that has not been entered
NewFrame(a) ==
    [args |-> a, pc |-> "idle",
     initialMatrix |-> <<>>, normalizedMatrix |-> <<>>, weightedMatrix |-> <<>>,
     idealSolution |-> <<>>, antiIdealSolution |-> <<>>,
     distanceToIdeal |-> <<>>, distanceToAntiIdeal |-> <<>>,
     scores |-> <<>>, returned |-> <<>>]

RunningPcs ==
    {"entry", "normalize", "weight", "ideal", "separation", "closeness", "rank"}

\* the frame after the next stage of runTopsisCalculation, the results being
\* built from the scores sc
StageStep(f, sc) ==
    CASE f.pc = "entry" ->
            IF IsEmptySelection(f.args.selectedMaterialsData,
                                f.args.selectedCriteriaKeys)
            THEN [f EXCEPT !.returned = <<>>, !.pc = "done"]
            ELSE [f EXCEPT !.initialMatrix =
                               BuildInitialMatrix(f.args.selectedMaterialsData,
                                   f.args.selectedCriteriaKeys, f.args.costs),
                           !.pc = "normalize"]
      [] f.pc = "normalize" ->
            IF f.initialMatrix = <<>>
            THEN [f EXCEPT !.pc = "threw"]
            ELSE [f EXCEPT !.normalizedMatrix = Normalize(f.initialMatrix),
                           !.pc = "weight"]
      [] f.pc = "weight" ->
            [f EXCEPT !.weightedMatrix =
                          Weighted(f.normalizedMatrix, f.args.selectedCriteriaKeys,
                                   f.args.weights),
                      !.pc = "ideal"]
      [] f.pc = "ideal" ->
            [f EXCEPT !.idealSolution =
                          IdealSolution(f.weightedMatrix, f.args.selectedCriteriaKeys,
                                        f.args.allCriteriaDefinition),
                      !.antiIdealSolution =
                          AntiIdealSolution(f.weightedMatrix,
                                            f.args.selectedCriteriaKeys,
                                            f.args.allCriteriaDefinition),
                      !.pc = "separation"]
      [] f.pc = "separation" ->
            [f EXCEPT !.distanceToIdeal = Distance(f.weightedMatrix, f.idealSolution),
                      !.distanceToAntiIdeal =
                          Distance(f.weightedMatrix, f.antiIdealSolution),
                      !.pc = "closeness"]
      [] f.pc = "closeness" ->
            [f EXCEPT !.scores = Closeness(f.distanceToIdeal, f.distanceToAntiIdeal),
                      !.pc = "rank"]
      [] f.pc = "rank" ->
            [f EXCEPT !.returned =
                          SortResults(BuildResults(f.args.selectedMaterialsData,
                              f.args.selectedCriteriaKeys, f.initialMatrix,
                              f.normalizedMatrix, f.weightedMatrix, f.idealSolution,
                              f.antiIdealSolution, f.distanceToIdeal,
                              f.distanceToAntiIdeal, sc)),
                      !.pc = "done"]

\* mutant: scores is one array shared by all invocations, an entry it lacks
\* reading as not a number
FrameStepSharingScores(f) ==
    StageStep(f, [i \in DOMAIN f.scores |->
                     IF i \in DOMAIN scores THEN scores[i] ELSE NaN])

\* every invocation works on the locals of its own frame
FrameStep(f) == StageStep(f, f.scores)

\* the second caller invokes the engine
SecondCall ==
    /\ second.pc = "idle"
    /\ second' = [second EXCEPT !.pc = "entry"]
    /\ UNCHANGED <<args, pc, locals, returned, prev, improved>>
    /\ UNCHANGED <<wizard, pending, prevs, entered, invocation>>

\* the second invocation takes its next step
SecondStep ==
    /\ second.pc \in RunningPcs
    /\ second' = FrameStep(second)
    /\ UNCHANGED <<args, pc, locals, returned, prev, improved>>
    /\ UNCHANGED <<wizard, pending, prevs, entered, invocation>>

\* inputs of the two invocations: two materials on vie, Scenario A with and
\* without its material, and the three materials of a leader run
ConcurrentInputs ==
    {[selectedMaterialsData |-> ms,
      selectedCriteriaKeys  |-> <<"vie">>,
      allCriteriaDefinition |-> allCriteria,
      costs   |-> NoEntries,
      weights |-> ("vie" :> One)]
     : ms \in {m \in MaterialLists(2, <<"vie">>) :
                  \A i \in DOMAIN m : Leq(m[i].vie, Int2Num(MaxVal))}}
        \cup ScenarioInputs
        \cup {[ScenarioA EXCEPT !.selectedMaterialsData = <<>>]}
        \cup {a \in LeaderInputs :
                 /\ Len(a.selectedMaterialsData) = 3
                 /\ a.selectedMaterialsData[1].vie = Zero
                 /\ a.selectedMaterialsData[1].pose = One
                 /\ a.weights["cout"] = Rat(2, WeightDen)}

ConcurrentInit ==
    /\ FirstInit(ConcurrentInputs)
    /\ second \in {NewFrame(a) : a \in ConcurrentInputs}
    /\ WizardInit

ConcurrentNext == Next \/ SecondCall \/ SecondStep

ConcurrentSpec == ConcurrentInit /\ [][ConcurrentNext]_vars

----------------------------------------------------------------------------
(* The wizard: handlers of MaterialWisePage.  A handler runs to its end, and *)
(* the effects its state changes trigger run before the next handler.       *)

\* the engine's frames, which no handler of the page touches
frames == <<args, pc, locals, returned, prev, improved, second>>

NamesOf(materials) == {materials[i].name : i \in DOMAIN materials}

\* every selected material has a cost text that parses to a number >= 0
costsValid(w) ==
    \A p \in DOMAIN w.selectedMaterialNames :
        LET name == w.selectedMaterialNames[p]
        IN  /\ name \in DOMAIN w.materialCosts
            /\ w.materialCosts[name] # ""
            /\ parseFloat(w.materialCosts[name]) # NotANumber
            /\ Sign(parseFloat(w.materialCosts[name])) >= 0

\* mutant: any number passes as a weight
weightsValidAnyNumber(w) ==
    \A p \in DOMAIN w.selectedCriteriaKeys :
        LET key == w.selectedCriteriaKeys[p]
        IN  /\ key \in DOMAIN w.criteriaWeights
            /\ w.criteriaWeights[key] # ""
            /\ parseFloat(w.criteriaWeights[key]) # NotANumber

\* every selected criterion has a weight text that parses to a number in [0, 1]
weightsValid(w) ==
    \A p \in DOMAIN w.selectedCriteriaKeys :
        LET key == w.selectedCriteriaKeys[p]
        IN  /\ key \in DOMAIN w.criteriaWeights
            /\ w.criteriaWeights[key] # ""
            /\ parseFloat(w.criteriaWeights[key]) # NotANumber
            /\ Sign(parseFloat(w.criteriaWeights[key])) >= 0
            /\ Leq(parseFloat(w.criteriaWeights[key]), One)

\* totalWeight once every weight has passed
totalWeight(w) ==
    SeqSum([p \in DOMAIN w.selectedCriteriaKeys |->
               parseFloat(w.criteriaWeights[w.selectedCriteriaKeys[p]])])

\* Math.abs(totalWeight - 1.0) > 0.001
TotalOff(w) ==
    LET diff == Sub(totalWeight(w), One)
    IN  Lt(Rat(1, 1000), IF Sign(diff) < 0 THEN Neg(diff) ELSE diff)

\* the argument object that handleNextStep builds at step 5
EngineArgs(w) ==
    [selectedMaterialsData |->
         SelectSeq(materialsDb, LAMBDA m : Includes(w.selectedMaterialNames, m.name)),
     selectedCriteriaKeys  |-> w.selectedCriteriaKeys,
     allCriteriaDefinition |-> w.selectableCriteria,
     costs   |-> [k \in DOMAIN w.materialCosts |-> parseFloat(w.materialCosts[k])],
     weights |-> [k \in DOMAIN w.criteriaWeights |->
                     parseFloat(w.criteriaWeights[k])]]

\* step 1: one of the two network type buttons
ChooseNetworkMainType ==
    /\ wizard.currentStep = 1
    /\ \E type \in NetworkMainTypes :
          wizard' = Rendered(wizard,
                        [wizard EXCEPT !.networkMainType = Some(type),
                                       !.selectedSubtype = Null,
                                       !.selectedPN = Null])
    /\ UNCHANGED <<pending, prevs, entered, invocation>>
    /\ UNCHANGED frames

\* step 2: a subtype radio button
ChooseSubtype ==
    /\ wizard.currentStep = 2
    /\ \E value \in Subtypes(wizard.networkMainType) :
          wizard' = Rendered(wizard, [wizard EXCEPT !.selectedSubtype = Some(value)])
    /\ UNCHANGED <<pending, prevs, entered, invocation>>
    /\ UNCHANGED frames

\* step 2: the pressure select, shown for Alimentation
ChoosePN ==
    /\ wizard.currentStep = 2
    /\ wizard.networkMainType = Some("Alimentation")
    /\ \E p \in DOMAIN pressureNominalValues :
          wizard' = Rendered(wizard,
                        [wizard EXCEPT !.selectedPN = Some(pressureNominalValues[p])])
    /\ UNCHANGED <<pending, prevs, entered, invocation>>
    /\ UNCHANGED frames

\* mutant: the material cards can be clicked at every step
handleMaterialSelectionAtAnyStep ==
    /\ \E materialName \in NamesOf(wizard.availableMaterials) :
          wizard' = [wizard EXCEPT !.selectedMaterialNames = Toggle(@, materialName)]
    /\ UNCHANGED <<pending, prevs, entered, invocation>>
    /\ UNCHANGED frames

\* step 3: a material card
handleMaterialSelection ==
    /\ wizard.currentStep = 3
    /\ \E materialName \in NamesOf(wizard.availableMaterials) :
          wizard' = [wizard EXCEPT !.selectedMaterialNames = Toggle(@, materialName)]
    /\ UNCHANGED <<pending, prevs, entered, invocation>>
    /\ UNCHANGED frames

\* step 4: a criterion card
handleCriteriaSelection ==
    /\ wizard.currentStep = 4
    /\ \E c \in DOMAIN wizard.selectableCriteria :
          LET criterionKey == wizard.selectableCriteria[c].key
          IN  /\ \/ Includes(wizard.selectedCriteriaKeys, criterionKey)
                 \/ Len(wizard.selectedCriteriaKeys) < MaxCriteria
              /\ wizard' = Rendered(wizard,
                     [wizard EXCEPT !.selectedCriteriaKeys = Toggle(@, criterionKey)])
    /\ UNCHANGED <<pending, prevs, entered, invocation>>
    /\ UNCHANGED frames

\* step 5: typing one of the texts into the cost field of a selected material
EnterCostFrom(texts) ==
    /\ wizard.currentStep = 5
    /\ \E p \in DOMAIN wizard.selectedMaterialNames, text \in texts :
          LET name == wizard.selectedMaterialNames[p]
          IN  /\ wizard' = [wizard EXCEPT !.materialCosts = Put(@, name, text)]
              /\ entered' = Put(entered, name, text)
    /\ UNCHANGED <<pending, prevs, invocation>>
    /\ UNCHANGED frames

EnterCost == EnterCostFrom(CostTexts)

\* step 5: typing one of the texts into the weight field of a selected
\* criterion
EnterWeightFrom(texts) ==
    /\ wizard.currentStep = 5
    /\ \E p \in DOMAIN wizard.selectedCriteriaKeys, text \in texts :
          wizard' = [wizard EXCEPT
                        !.criteriaWeights = Put(@, wizard.selectedCriteriaKeys[p], text)]
    /\ UNCHANGED <<pending, prevs, entered, invocation>>
    /\ UNCHANGED frames

EnterWeight == EnterWeightFrom(WeightTexts)

\* handleNextStep on the state w: the state it leaves and the arguments of
\* the engine call it makes, if it makes one
AfterNextStep(w) ==
    LET step == w.currentStep
        \* toast(...); return
        Refuse == [state |-> w, call |-> Null]
    IN  IF step = 1 /\ w.networkMainType = Null
        THEN Refuse
        ELSE IF step = 2 /\ (\/ w.selectedSubtype = Null
                             \/ /\ w.networkMainType = Some("Alimentation")
                                /\ w.selectedPN = Null)
        THEN Refuse
        ELSE IF /\ step = 2
                /\ Len(w.availableMaterials) = 0
                /\ \/ /\ w.networkMainType = Some("Alimentation")
                      /\ w.selectedPN # Null
                   \/ w.networkMainType = Some("Evacuation")
        THEN Refuse
        ELSE IF step = 3 /\ Len(w.selectedMaterialNames) = 0
        THEN Refuse
        ELSE IF step = 4 /\ Len(w.selectedCriteriaKeys) = 0
        THEN Refuse
        ELSE IF step = 5
        THEN IF ~costsValid(w)
             THEN Refuse
             ELSE IF ~weightsValid(w)
             THEN Refuse
             ELSE IF TotalOff(w)
             THEN Refuse
             ELSE CHOOSE out \in
                      {[state |-> [w EXCEPT
                                     !.topsisResults = Some(results),
                                     !.calculationDetails =
                                         IF Len(results) > 0 THEN Some(results[1])
                                                             ELSE Null,
                                     !.currentStep = step + 1],
                        call  |-> Some(EngineArgs(w))]
                       : results \in {RunAlone(EngineArgs(w))}} : TRUE
        ELSE [state |-> [w EXCEPT !.currentStep = step + 1], call |-> Null]

\* the number of engine calls the page has made since its last restart
Invocations == IF invocation.called THEN invocation.nth ELSE 0

\* mutant: the Suivant button is rendered at every step
NextOfferedAlways(w) == w.currentStep <= 6

\* the Suivant button is rendered below step 6
NextOffered(w) == w.currentStep < 6

\* mutant: the engine is called on every press of Suivant at step 5, before
\* the entries are validated
handleNextStepInvokingFirst ==
    /\ wizard.currentStep < 6
    /\ \E out \in {AfterNextStep(wizard)} :
          /\ wizard' = out.state
          /\ invocation' = IF wizard.currentStep # 5 THEN invocation
                           ELSE [called |-> TRUE, args |-> EngineArgs(wizard),
                                 nth |-> Invocations + 1]
    /\ UNCHANGED <<pending, prevs, entered>>
    /\ UNCHANGED frames

\* the Suivant button
handleNextStep ==
    /\ NextOffered(wizard)
    /\ \E out \in {AfterNextStep(wizard)} :
          /\ wizard' = out.state
          /\ invocation' = IF out.call = Null THEN invocation
                           ELSE [called |-> TRUE, args |-> out.call[1],
                                 nth |-> Invocations + 1]
    /\ UNCHANGED <<pending, prevs, entered>>
    /\ UNCHANGED frames

\* the Precedent button, offered above step 1
handlePrevStep ==
    /\ wizard.currentStep > 1
    /\ prevs < MaxPrev
    /\ wizard' = [wizard EXCEPT !.currentStep = @ - 1]
    /\ prevs' = prevs + 1
    /\ UNCHANGED <<pending, entered, invocation>>
    /\ UNCHANGED frames

\* the Recommencer button, offered at step 6; calls in flight stay in flight
handleRestart ==
    /\ wizard.currentStep = 6
    /\ wizard' = Rendered(wizard, [InitialState EXCEPT !.selectableCriteria = allCriteria])
    /\ prevs' = 0
    /\ entered' = NoTexts
    /\ invocation' = NoCall
    /\ UNCHANGED pending
    /\ UNCHANGED frames

\* the Suggerer button of a selected material, up to the await
handleSuggestCost ==
    /\ wizard.currentStep = 5
    /\ \E p \in DOMAIN wizard.selectedMaterialNames :
          LET materialName == wizard.selectedMaterialNames[p]
          IN  \* disabled={isSuggestingCost[name] || selectedPN === null}
              /\ ~(/\ materialName \in DOMAIN wizard.isSuggestingCost
                   /\ wizard.isSuggestingCost[materialName])
              /\ wizard.selectedPN # Null
              /\ pending[materialName] < MaxPending
              /\ IF \/ materialName \notin NamesOf(wizard.availableMaterials)
                    \/ wizard.selectedPN = Null
                 THEN UNCHANGED <<wizard, pending>>
                 ELSE /\ wizard' = [wizard EXCEPT
                             !.isSuggestingCost = Put(@, materialName, TRUE)]
                      /\ pending' = [pending EXCEPT ![materialName] = @ + 1]
    /\ UNCHANGED <<prevs, entered, invocation>>
    /\ UNCHANGED frames

\* mutant: the suggestion is filled into the cost field
SuggestionResolvesFillingCost ==
    /\ \E materialName \in DOMAIN pending :
          /\ pending[materialName] > 0
          /\ wizard' = [wizard EXCEPT
                 !.costSuggestions = Put(@, materialName, SuggestedRange),
                 !.materialCosts = Put(@, materialName, "1"),
                 !.isSuggestingCost = Put(@, materialName, FALSE)]
          /\ pending' = [pending EXCEPT ![materialName] = @ - 1]
    /\ UNCHANGED <<prevs, entered, invocation>>
    /\ UNCHANGED frames

\* suggestMaterialCosts resolves: the rest of the try block, then finally
SuggestionResolves ==
    /\ \E materialName \in DOMAIN pending :
          /\ pending[materialName] > 0
          /\ wizard' = [wizard EXCEPT
                 !.costSuggestions = Put(@, materialName, SuggestedRange),
                 !.isSuggestingCost = Put(@, materialName, FALSE)]
          /\ pending' = [pending EXCEPT ![materialName] = @ - 1]
    /\ UNCHANGED <<prevs, entered, invocation>>
    /\ UNCHANGED frames

\* suggestMaterialCosts rejects: the catch block, then finally
SuggestionRejects ==
    /\ \E materialName \in DOMAIN pending :
          /\ pending[materialName] > 0
          /\ wizard' = [wizard EXCEPT
                 !.isSuggestingCost = Put(@, materialName, FALSE)]
          /\ pending' = [pending EXCEPT ![materialName] = @ - 1]
    /\ UNCHANGED <<prevs, entered, invocation>>
    /\ UNCHANGED frames

WizardNext ==
    \/ ChooseNetworkMainType
    \/ ChooseSubtype
    \/ ChoosePN
    \/ handleMaterialSelection
    \/ handleCriteriaSelection
    \/ EnterCost
    \/ EnterWeight
    \/ handleNextStep
    \/ handlePrevStep
    \/ handleRestart
    \/ handleSuggestCost
    \/ SuggestionResolves
    \/ SuggestionRejects

\* the page by itself: the engine runs inside handleNextStep only
WizardInitial == InitWith(ScenarioInputs)

WizardSpec == WizardInitial /\ [][WizardNext]_vars

\* a step of the cost suggestion: the handler up to its await, or the
\* service call resolving or rejecting
SuggestionStep ==
    \/ handleSuggestCost
    \/ SuggestionResolves
    \/ SuggestionRejects

\* one pass through the steps of the wizard with the cost suggestions, the
\* user pressing neither Precedent nor Recommencer
PassNext ==
    \/ ChooseNetworkMainType
    \/ ChooseSubtype
    \/ ChoosePN
    \/ handleMaterialSelection
    \/ handleCriteriaSelection
    \/ EnterCost
    \/ EnterWeight
    \/ handleNextStep
    \/ handleSuggestCost
    \/ SuggestionResolves
    \/ SuggestionRejects

PassSpec == WizardInitial /\ [][PassNext]_vars

\* one pass through the steps of the wizard by a user who also types weights
\* outside [0, 1] and weights that miss a total of 1 by little
ValidationNext ==
    \/ ChooseNetworkMainType
    \/ ChooseSubtype
    \/ ChoosePN
    \/ handleMaterialSelection
    \/ handleCriteriaSelection
    \/ EnterCost
    \/ EnterWeightFrom({"0.5"} \cup LimitWeightTexts)
    \/ handleNextStep

ValidationSpec == WizardInitial /\ [][ValidationNext]_vars

\* the wizard of a user who goes back and restarts, and who types one cost
\* and one weight text; no cost suggestion is requested
NavNext ==
    \/ ChooseNetworkMainType
    \/ ChooseSubtype
    \/ ChoosePN
    \/ handleMaterialSelection
    \/ handleCriteriaSelection
    \/ EnterCostFrom({"1"})
    \/ EnterWeightFrom({"0.5"})
    \/ handleNextStep
    \/ handlePrevStep
    \/ handleRestart

NavSpec == WizardInitial /\ [][NavNext]_vars

\* the wizard of a user who asks for cost suggestions and restarts while
\* calls are in flight
RestartNext ==
    \/ ChooseNetworkMainType
    \/ ChooseSubtype
    \/ ChoosePN
    \/ handleMaterialSelection
    \/ handleCriteriaSelection
    \/ EnterCostFrom({"1"})
    \/ EnterWeightFrom({"0.5"})
    \/ handleNextStep
    \/ handleRestart
    \/ handleSuggestCost
    \/ SuggestionResolves
    \/ SuggestionRejects

RestartSpec == WizardInitial /\ [][RestartNext]_vars

----------------------------------------------------------------------------
(* Properties *)

Materials == args.selectedMaterialsData
Keys == args.selectedCriteriaKeys

\* the current call has computed its normalized matrix
Normalized ==
    pc \in {"weight", "ideal", "separation", "closeness", "rank", "done"}
        /\ Len(Materials) # 0 /\ Len(Keys) # 0
\* the current call has computed its scores
Scored == pc \in {"rank", "done"} /\ Len(Materials) # 0 /\ Len(Keys) # 0

PositionOf(rs, name) == CHOOSE p \in DOMAIN rs : rs[p].name = name

ScoreOne == [num |-> One, den |-> One]
ScoreZero == [num |-> Zero, den |-> One]

\* a <= b for two finite scores
ScoreLeq(a, b) ==
    Sign(Sub(Mul(b.num, a.den), Mul(a.num, b.den))) * Sign(a.den) * Sign(b.den) >= 0

\* the catalog of the call marks the key as a benefit criterion
MarkedBenefit(key) ==
    \E c \in DOMAIN args.allCriteriaDefinition :
        /\ args.allCriteriaDefinition[c].key = key
        /\ args.allCriteriaDefinition[c].isBenefit

PositiveWeight(key) == key \in DOMAIN args.weights /\ Sign(args.weights[key]) > 0

\* C1: a call with materials and criteria returns one result per material:
\* the list is as long as the material list and holds every name once
OneResultPerMaterial ==
    (pc = "done" /\ Len(Materials) # 0 /\ Len(Keys) # 0) =>
        /\ Len(returned) = Len(Materials)
        /\ \A i \in DOMAIN Materials :
              Cardinality({p \in DOMAIN returned :
                              returned[p].name = Materials[i].name}) = 1

\* a call with two materials has returned them in the opposite order
OneResultPerMaterialWitness ==
    /\ pc = "done"
    /\ Len(Materials) = 2 /\ Len(Keys) # 0
    /\ Len(returned) = 2
    /\ returned[1].name = Materials[2].name
    /\ returned[2].name = Materials[1].name

\* C2: the returned list is in descending order of score, NaN scores last
RankedDescending ==
    pc = "done" =>
        \A p, q \in DOMAIN returned :
            p < q =>
                \/ isNaN(returned[q].score)
                \/ /\ ~isNaN(returned[p].score)
                   /\ IsFinite(returned[p].score) /\ IsFinite(returned[q].score)
                   /\ ScoreLeq(returned[q].score, returned[p].score)

\* the sort has moved the second material, with the higher score, to the front
RankedDescendingWitness ==
    /\ pc = "done"
    /\ Len(returned) = 2
    /\ returned[1].name = Materials[2].name
    /\ ~isNaN(returned[1].score) /\ ~isNaN(returned[2].score)
    /\ ~ScoreLeq(returned[1].score, returned[2].score)

InUnitInterval(v) ==
    isNaN(v) \/ (IsFinite(v) /\ ScoreLeq(ScoreZero, v) /\ ScoreLeq(v, ScoreOne))

\* C3: every score is NaN or lies between 0 and 1
ScoresInUnitInterval ==
    /\ Scored => \A i \in DOMAIN scores : InUnitInterval(scores[i])
    /\ pc = "done" => \A p \in DOMAIN returned : InUnitInterval(returned[p].score)

\* a returned score lies strictly between 0 and 1
ScoresInUnitIntervalWitness ==
    /\ pc = "done"
    /\ \E p \in DOMAIN returned :
          /\ IsFinite(returned[p].score)
          /\ ~ScoreLeq(returned[p].score, ScoreZero)
          /\ ~ScoreLeq(ScoreOne, returned[p].score)

\* C4: with no material or no criterion the call computes nothing, throws
\* nothing and returns the empty list
EmptySelectionReturnsEmpty ==
    (Len(Materials) = 0 \/ Len(Keys) = 0) =>
        /\ pc \in {"idle", "entry", "done"}
        /\ pc = "done" => returned = <<>>

\* a call with two materials and no criterion has returned the empty list
EmptySelectionWitness ==
    /\ pc = "done"
    /\ Len(Materials) = 2 /\ Len(Keys) = 0
    /\ returned = <<>>

\* the call follows a call whose arguments differed only in a lower value of
\* one material on one selected criterion, a benefit criterion with weight > 0
ImprovedRun ==
    /\ pc = "done"
    /\ improved.index # 0
    /\ prev.called
    /\ \E v \in ValuesUpTo(MaxSingle) :
          /\ Lt(v, Materials[improved.index][improved.key])
          /\ prev.args =
                [args EXCEPT !.selectedMaterialsData[improved.index][improved.key] = v]
    /\ MarkedBenefit(improved.key)
    /\ PositiveWeight(improved.key)

\* the improved material is behind no material it was ahead of
KeepsItsRank ==
    LET name == Materials[improved.index].name
    IN  \A i \in DOMAIN Materials :
            PositionOf(prev.returned, name) < PositionOf(prev.returned, Materials[i].name)
                => PositionOf(returned, name) < PositionOf(returned, Materials[i].name)

\* C5 as stated: raising a benefit value never costs the material a rank
MonotoneRank == ImprovedRun => KeepsItsRank

\* C5, amended: with exactly two materials (and non-negative values) raising
\* a benefit value never costs the material its rank
MonotoneRankOfTwo ==
    (ImprovedRun /\ Len(Materials) = 2) => KeepsItsRank

\* of two materials the improved one was behind and is now ahead
MonotoneRankOfTwoWitness ==
    /\ ImprovedRun
    /\ Len(Materials) = 2 /\ Len(Keys) >= 2
    /\ PositionOf(prev.returned, Materials[improved.index].name) = 2
    /\ PositionOf(returned, Materials[improved.index].name) = 1

ColumnIsZero(matrix, j) == \A i \in DOMAIN matrix : matrix[i][j] = Zero

\* C6 as stated: a column of equal values is normalized to zeros
EqualColumnNormalizedToZero ==
    Normalized =>
        \A j \in DOMAIN Keys :
            (\A i, k \in DOMAIN initialMatrix :
                initialMatrix[i][j] = initialMatrix[k][j])
                => ColumnIsZero(normalizedMatrix, j)

\* C6, amended: a column of zeros is normalized to zeros
ZeroColumnNormalizedToZero ==
    Normalized =>
        \A j \in DOMAIN Keys :
            ColumnIsZero(initialMatrix, j) => ColumnIsZero(normalizedMatrix, j)

\* two materials with a column of zeros next to a column that is not
ZeroColumnWitness ==
    /\ Normalized
    /\ Len(Materials) = 2 /\ Len(Keys) = 2
    /\ ColumnIsZero(initialMatrix, 1)
    /\ ~ColumnIsZero(initialMatrix, 2)
    /\ ColumnIsZero(normalizedMatrix, 1)

SumOfSquares(column) == SeqSum([i \in DOMAIN column |-> Pow2(column[i])])

\* C7: a column with sum of squares 0 is normalized to zeros; any other is
\* divided by the root of its sum of squares and gets the Euclidean norm 1
UnitColumns ==
    Normalized =>
        \A j \in DOMAIN Keys :
            LET s == SumOfSquares(Column(initialMatrix, j))
            IN  IF s = Zero THEN ColumnIsZero(normalizedMatrix, j)
                ELSE /\ \A i \in DOMAIN initialMatrix :
                           Mul(normalizedMatrix[i][j], Sqrt(s)) = initialMatrix[i][j]
                     /\ SumOfSquares(Column(normalizedMatrix, j)) = One

\* a column of two non-zero values whose norm is irrational
UnitColumnsWitness ==
    /\ Normalized
    /\ Len(Materials) = 2
    /\ initialMatrix[1][1] # Zero /\ initialMatrix[2][1] # Zero
    /\ ~IsRational(Sqrt(SumOfSquares(Column(initialMatrix, 1))))
    /\ SumOfSquares(Column(normalizedMatrix, 1)) = One

\* C8: a score is NaN exactly when D+ + D- = 0; then every column of the
\* weighted matrix is constant; the scores of a run are all NaN or none is
NaNOnlyWithoutSeparation ==
    Scored =>
        /\ \A i \in DOMAIN scores :
              isNaN(scores[i]) <=>
                  Add(distanceToIdeal[i], distanceToAntiIdeal[i]) = Zero
        /\ (\E i \in DOMAIN scores : isNaN(scores[i])) =>
              \A j \in DOMAIN Keys : \A i, k \in DOMAIN weightedMatrix :
                  weightedMatrix[i][j] = weightedMatrix[k][j]
        /\ \A i, k \in DOMAIN scores : isNaN(scores[i]) <=> isNaN(scores[k])
        /\ pc = "done" =>
              \A p, q \in DOMAIN returned :
                  isNaN(returned[p].score) <=> isNaN(returned[q].score)

\* two materials with equal non-zero weighted values: both scores are NaN
NaNWitness ==
    /\ pc = "done"
    /\ Len(returned) = 2
    /\ isNaN(returned[1].score) /\ isNaN(returned[2].score)
    /\ weightedMatrix[1][1] # Zero

\* C9: a call with the arguments of the call before returns the same list,
\* scores and trail included
SameArgumentsSameResult ==
    (pc = "done" /\ prev.called /\ prev.args = args) => returned = prev.returned

\* a second call with the same two materials has returned numeric scores
SameArgumentsWitness ==
    /\ pc = "done"
    /\ prev.called /\ prev.args = args
    /\ Len(returned) = 2
    /\ ~isNaN(returned[1].score)
    /\ returned[1].score # ScoreZero
    /\ returned = prev.returned

\* two materials, one benefit criterion of positive weight, values 0 < a < b
TwoOnOneBenefit(lo, hi) ==
    /\ pc = "done"
    /\ Len(Materials) = 2 /\ Len(Keys) = 1
    /\ MarkedBenefit(Keys[1]) /\ PositiveWeight(Keys[1])
    /\ Sign(initialMatrix[lo][1]) > 0
    /\ Lt(initialMatrix[lo][1], initialMatrix[hi][1])

\* C10: of two materials on one benefit criterion the one with the larger
\* value scores 1 and comes first, the other scores 0; values 3 and 4 with
\* weight 1 give 0.6 and 0.8, ideal 0.8, anti-ideal 0.6
LargerValueWins ==
    \A lo, hi \in {1, 2} :
        TwoOnOneBenefit(lo, hi) =>
            /\ returned[1].name = Materials[hi].name
            /\ returned[1].score = ScoreOne
            /\ returned[2].name = Materials[lo].name
            /\ returned[2].score = ScoreZero
            /\ (/\ initialMatrix = <<<<Int2Num(3)>>, <<Int2Num(4)>>>>
                /\ args.weights[Keys[1]] = One)
                   => /\ normalizedMatrix = <<<<Rat(3, 5)>>, <<Rat(4, 5)>>>>
                      /\ weightedMatrix = <<<<Rat(3, 5)>>, <<Rat(4, 5)>>>>
                      /\ idealSolution = <<Rat(4, 5)>>
                      /\ antiIdealSolution = <<Rat(3, 5)>>

\* the run of values 3 and 4 with weight 1
LargerValueWinsWitness ==
    /\ TwoOnOneBenefit(1, 2)
    /\ initialMatrix = <<<<Int2Num(3)>>, <<Int2Num(4)>>>>
    /\ args.weights[Keys[1]] = One
    /\ returned[1].name = Materials[2].name

\* C11: a run with one material and at least one criterion returns a single
\* result; its ideal vector equals its anti-ideal vector, D+ and D- are 0 and
\* the score is NaN; value 5 on one benefit criterion of weight 1 gives the
\* normalized value 1, the weighted value 1 and ideal = anti-ideal = 1
SingleMaterialScoresNaN ==
    (Len(Materials) = 1 /\ Len(Keys) # 0) =>
        /\ pc \in {"separation", "closeness", "rank", "done"} =>
              idealSolution = antiIdealSolution
        /\ Scored =>
              /\ distanceToIdeal = <<Zero>> /\ distanceToAntiIdeal = <<Zero>>
              /\ scores = <<NaN>>
        /\ pc = "done" =>
              /\ Len(returned) = 1
              /\ isNaN(returned[1].score)
              /\ returned[1].idealSolution = returned[1].antiIdealSolution
              /\ returned[1].distanceToIdeal = <<Zero>>
              /\ returned[1].distanceToAntiIdeal = <<Zero>>
              /\ args = ScenarioA =>
                    /\ returned[1].normalizedMatrix = <<<<One>>>>
                    /\ returned[1].weightedMatrix = <<<<One>>>>
                    /\ returned[1].idealSolution = <<One>>
                    /\ returned[1].antiIdealSolution = <<One>>

\* the run of Scenario A has returned
SingleMaterialWitness ==
    /\ pc = "done"
    /\ args = ScenarioA
    /\ initialMatrix = <<<<Int2Num(5)>>>>
    /\ Len(returned) = 1
    /\ isNaN(returned[1].score)

\* materials i and k have the same value on every selected criterion but the
\* cost, and i costs less than k
CheaperAllElseEqual(i, k) ==
    /\ \A j \in DOMAIN Keys :
          IF Keys[j] = CostKey
          THEN Lt(initialMatrix[i][j], initialMatrix[k][j])
          ELSE initialMatrix[i][j] = initialMatrix[k][j]

\* C12: when the cost criterion (isBenefit = false) is selected with positive
\* weight, of two materials that are equal on every other selected criterion
\* the cheaper one scores at least as high as the dearer one
CheaperScoresNoLower ==
    (Scored /\ CostKey \in KeySet(Keys) /\ PositiveWeight(CostKey)
            /\ ~MarkedBenefit(CostKey)) =>
        \A i, k \in DOMAIN Materials :
            CheaperAllElseEqual(i, k) =>
                /\ IsFinite(scores[i]) /\ IsFinite(scores[k])
                /\ ScoreLeq(scores[k], scores[i])

\* of three materials the first and the third differ in cost alone, and the
\* cheaper first one has the strictly higher score
CheaperScoresNoLowerWitness ==
    /\ pc = "done"
    /\ Len(Materials) = 3 /\ Len(Keys) = 3
    /\ PositiveWeight(CostKey)
    /\ CheaperAllElseEqual(1, 3)
    /\ ~ScoreLeq(scores[1], scores[3])

\* the entry of the catalog of the call for the key is found
InCatalog(key) ==
    \E c \in DOMAIN args.allCriteriaDefinition :
        args.allCriteriaDefinition[c].key = key

\* v is the largest value of column j of the matrix
IsColumnMax(matrix, j, v) ==
    /\ \E i \in DOMAIN matrix : matrix[i][j] = v
    /\ \A i \in DOMAIN matrix : Leq(matrix[i][j], v)

\* v is the smallest value of column j of the matrix
IsColumnMin(matrix, j, v) ==
    /\ \E i \in DOMAIN matrix : matrix[i][j] = v
    /\ \A i \in DOMAIN matrix : Leq(v, matrix[i][j])

\* C13: for every column whose criterion is in the catalog, the ideal is the
\* maximum and the anti-ideal the minimum of the weighted column when the
\* criterion is a benefit, and the other way round when it is a cost
IdealFromWeightedColumns ==
    (pc \in {"separation", "closeness", "rank", "done"}
        /\ Len(Materials) # 0 /\ Len(Keys) # 0) =>
        \A j \in DOMAIN Keys :
            InCatalog(Keys[j]) =>
                IF MarkedBenefit(Keys[j])
                THEN /\ IsColumnMax(weightedMatrix, j, idealSolution[j])
                     /\ IsColumnMin(weightedMatrix, j, antiIdealSolution[j])
                ELSE /\ IsColumnMin(weightedMatrix, j, idealSolution[j])
                     /\ IsColumnMax(weightedMatrix, j, antiIdealSolution[j])

\* a benefit column and a cost column, each with two different weighted
\* values that are not the normalized ones
IdealFromWeightedColumnsWitness ==
    /\ pc = "separation"
    /\ Len(Materials) = 2 /\ Len(Keys) = 2
    /\ MarkedBenefit(Keys[1]) /\ Keys[2] = CostKey /\ ~MarkedBenefit(CostKey)
    /\ \A j \in 1..2 :
          /\ weightedMatrix[1][j] # weightedMatrix[2][j]
          /\ weightedMatrix[1][j] # normalizedMatrix[1][j]
          /\ idealSolution[j] # antiIdealSolution[j]

\* the current call has built its decision matrix
MatrixBuilt ==
    pc \in {"normalize", "weight", "ideal", "separation", "closeness", "rank", "done"}
        /\ Len(Materials) # 0 /\ Len(Keys) # 0

\* C14: the decision matrix has a row per material and a column per selected
\* key, in the order of the two lists; a cell of the key cout is the cost
\* entry of the material's name, 0 without an entry; any other cell is the
\* material's attribute of that key, whatever the cost map holds
MatrixFollowsSelection ==
    MatrixBuilt =>
        /\ DOMAIN initialMatrix = DOMAIN Materials
        /\ \A i \in DOMAIN Materials :
              /\ DOMAIN initialMatrix[i] = DOMAIN Keys
              /\ \A j \in DOMAIN Keys :
                    initialMatrix[i][j] =
                        IF Keys[j] = "cout"
                        THEN IF Materials[i].name \in DOMAIN args.costs
                             THEN args.costs[Materials[i].name]
                             ELSE Zero
                        ELSE Materials[i][Keys[j]]

\* the cost column comes first as selected, next to an attribute column that
\* differs from it in both rows
MatrixFollowsSelectionWitness ==
    /\ pc = "normalize"
    /\ Len(Materials) = 2
    /\ Keys = <<"cout", "vie">>
    /\ \A i \in 1..2 :
          /\ initialMatrix[i][1] = args.costs[Materials[i].name]
          /\ initialMatrix[i][2] = Materials[i].vie
          /\ initialMatrix[i][1] # initialMatrix[i][2]
    /\ initialMatrix[1] # initialMatrix[2]

\* the weight of column j: the entry of its key, 0 without an entry
WeightOfColumn(j) ==
    IF Keys[j] \in DOMAIN args.weights THEN args.weights[Keys[j]] ELSE Zero

\* distance of row i from the reference over the columns with a weight entry
DistanceOverWeighted(i, reference) ==
    Sqrt(SeqSum([j \in DOMAIN Keys |->
                    IF Keys[j] \in DOMAIN args.weights
                    THEN Pow2(Sub(weightedMatrix[i][j], reference[j]))
                    ELSE Zero]))

\* C15: every weighted cell is the normalized cell times the weight of the
\* column's key; a key without a weight entry has weight 0, its weighted
\* column is 0 and it adds nothing to D+ or D-
WeightedByKey ==
    /\ (pc \in {"ideal", "separation", "closeness", "rank", "done"}
          /\ Len(Materials) # 0 /\ Len(Keys) # 0) =>
          \A i \in DOMAIN Materials : \A j \in DOMAIN Keys :
              /\ weightedMatrix[i][j] = Mul(normalizedMatrix[i][j], WeightOfColumn(j))
              /\ Keys[j] \notin DOMAIN args.weights => weightedMatrix[i][j] = Zero
    /\ Scored =>
          \A i \in DOMAIN Materials :
              /\ distanceToIdeal[i] = DistanceOverWeighted(i, idealSolution)
              /\ distanceToAntiIdeal[i] = DistanceOverWeighted(i, antiIdealSolution)

\* pose has no weight entry and its normalized column differs between the two
\* rows, yet both distances come from the vie column alone
WeightedByKeyWitness ==
    /\ pc = "done"
    /\ Len(Materials) = 2 /\ Keys = <<"vie", "pose">>
    /\ DOMAIN args.weights = {"vie"}
    /\ normalizedMatrix[1][2] # normalizedMatrix[2][2]
    /\ weightedMatrix[1][2] = Zero /\ weightedMatrix[2][2] = Zero
    /\ weightedMatrix[1][1] # weightedMatrix[2][1]
    /\ distanceToIdeal[1] # distanceToIdeal[2]

\* the computation trail that a result row carries
TrailOf(result) ==
    <<result.initialMatrix, result.normalizedMatrix, result.weightedMatrix,
      result.idealSolution, result.antiIdealSolution,
      result.distanceToIdeal, result.distanceToAntiIdeal>>

\* C16: all results of one run carry the same computation trail: the three
\* matrices, the ideal and anti-ideal vectors and the two distance vectors
\* of that run
SameTrailInEveryResult ==
    (pc = "done" /\ returned # <<>>) =>
        /\ \A p, q \in DOMAIN returned : TrailOf(returned[p]) = TrailOf(returned[q])
        /\ TrailOf(returned[1]) =
              <<initialMatrix, normalizedMatrix, weightedMatrix, idealSolution,
                antiIdealSolution, distanceToIdeal, distanceToAntiIdeal>>

\* three results of different scores and distances carry one trail
SameTrailWitness ==
    /\ pc = "done"
    /\ Len(returned) = 3
    /\ returned[1].score # returned[2].score
    /\ returned[2].score # returned[3].score
    /\ distanceToIdeal[1] # distanceToIdeal[2]
    /\ TrailOf(returned[1]) = TrailOf(returned[3])
    /\ Len(returned[3].distanceToIdeal) = 3

\* C17: no step of runTopsisCalculation changes its arguments: the material
\* records and their order, the key list, the catalog, the cost map and the
\* weight map are after every step, the sort included, what they were before
ArgumentsUnchanged == [][pc # "idle" => args' = args]_vars

\* the sort has put the third material first and the first material last
\* while the material list of the call is in its order A, B, C
ArgumentsUnchangedWitness ==
    /\ pc = "done"
    /\ Len(returned) = 3
    /\ returned[1].originalData = Materials[3]
    /\ returned[3].originalData = Materials[1]
    /\ [i \in 1..3 |-> Materials[i].name] = MaterialNames

\* C19: every call ends with a returned list: no step fails, and a call that
\* has been entered reaches its return, also with an all-zero column, zero
\* separation or a missing weight or cost entry
AlwaysReturns == [](pc # "threw") /\ ((pc = "entry") ~> (pc = "done"))

\* a run of the cost criterion alone, with neither a cost nor a weight entry,
\* has returned its two results with NaN scores
AlwaysReturnsWitness ==
    /\ pc = "done"
    /\ Keys = <<"cout">>
    /\ args.costs = NoEntries /\ args.weights = NoEntries
    /\ ColumnIsZero(initialMatrix, 1)
    /\ distanceToIdeal = <<Zero, Zero>>
    /\ Len(returned) = 2
    /\ isNaN(returned[1].score) /\ isNaN(returned[2].score)

\* C18: of two invocations whose steps interleave in any order, each returns
\* what it returns when it runs alone
InterleavedAsAlone ==
    /\ pc = "done" => returned = RunAlone(args)
    /\ second.pc = "done" => second.returned = RunAlone(second.args)

\* the second invocation, entered after the first one had computed its
\* scores, has returned three results while the first, on other arguments,
\* still has its two results to build
InterleavedWitness ==
    /\ pc = "rank"
    /\ second.pc = "done"
    /\ Len(scores) = 2
    /\ Len(second.returned) = 3
    /\ second.returned[1].score # second.returned[3].score
    /\ returned = <<>>

\* a suggestion is awaited for the material, or its last one has failed and
\* none has come
SuggestionPending(name) == pending[name] > 0
SuggestionFailed(name) ==
    /\ pending[name] = 0
    /\ name \in DOMAIN wizard.isSuggestingCost
    /\ name \notin DOMAIN wizard.costSuggestions

\* the user has typed a cost >= 0 for every selected material, and the
\* weights of the selected criteria lie in [0, 1] and add up to 1
UserInputValid ==
    /\ \A p \in DOMAIN wizard.selectedMaterialNames :
          LET name == wizard.selectedMaterialNames[p]
          IN  /\ name \in DOMAIN entered
              /\ parseFloat(entered[name]) # NotANumber
              /\ Sign(parseFloat(entered[name])) >= 0
    /\ weightsValid(wizard)
    /\ totalWeight(wizard) = One

\* in the step taken, the engine is invoked on the selected materials with
\* the costs the user typed for them
InvokedWithEnteredCosts ==
    /\ invocation'.called
    /\ NamesOf(invocation'.args.selectedMaterialsData)
           = {wizard.selectedMaterialNames[p] : p \in DOMAIN wizard.selectedMaterialNames}
    /\ \A name \in NamesOf(invocation'.args.selectedMaterialsData) :
          invocation'.args.costs[name] = parseFloat(entered[name])
    /\ wizard'.topsisResults = Some(RunAlone(invocation'.args))

\* pressing Suivant takes the wizard to the results of an invocation on
\* the selected materials with the costs the user typed for them
CanAdvanceToResults ==
    /\ NextOffered(wizard)
    /\ \E out \in {AfterNextStep(wizard)} :
          /\ out.state.currentStep = 6
          /\ out.call # Null
          /\ NamesOf(out.call[1].selectedMaterialsData)
                 = {wizard.selectedMaterialNames[p] :
                        p \in DOMAIN wizard.selectedMaterialNames}
          /\ \A name \in NamesOf(out.call[1].selectedMaterialsData) :
                out.call[1].costs[name] = parseFloat(entered[name])
          /\ out.state.topsisResults = Some(RunAlone(out.call[1]))

\* C20: whatever the cost-suggestion service does, it neither alters nor
\* blocks an engine invocation: no step of handleSuggestCost, before or
\* after its await, writes materialCosts, criteriaWeights,
\* selectedMaterialNames or selectedCriteriaKeys; every step from step 5 to
\* step 6 invokes the engine with the costs the user entered; and with valid
\* entries such a step can be taken while a suggestion is pending or after
\* one has failed
SuggestionNeverInterferes ==
    /\ [][SuggestionStep =>
             /\ wizard'.materialCosts = wizard.materialCosts
             /\ wizard'.criteriaWeights = wizard.criteriaWeights
             /\ wizard'.selectedMaterialNames = wizard.selectedMaterialNames
             /\ wizard'.selectedCriteriaKeys = wizard.selectedCriteriaKeys
             /\ wizard'.currentStep = wizard.currentStep
             /\ wizard'.topsisResults = wizard.topsisResults]_vars
    /\ [][wizard.currentStep = 5 /\ wizard'.currentStep = 6
             => InvokedWithEnteredCosts]_vars
    /\ [](/\ wizard.currentStep = 5
          /\ UserInputValid
          /\ \E p \in DOMAIN wizard.selectedMaterialNames :
                \/ SuggestionPending(wizard.selectedMaterialNames[p])
                \/ SuggestionFailed(wizard.selectedMaterialNames[p])
          => CanAdvanceToResults)

\* the wizard shows the results of a run on cost, computed from the costs
\* the user typed, while the suggestion for one selected material is still
\* awaited and the one for the other has failed
SuggestionNeverInterferesWitness ==
    /\ wizard.currentStep = 6
    /\ invocation.called
    /\ Includes(wizard.selectedCriteriaKeys, CostKey)
    /\ Len(wizard.selectedMaterialNames) = 2
    /\ wizard.topsisResults[1][1].score # wizard.topsisResults[1][2].score
    /\ \A name \in NamesOf(invocation.args.selectedMaterialsData) :
          invocation.args.costs[name] = parseFloat(entered[name])
    /\ \E a, b \in DOMAIN pending :
          SuggestionPending(a) /\ SuggestionFailed(b)

\* C25: a selected key without an entry in the catalog of the call is treated
\* as a cost: its ideal is the minimum and its anti-ideal the maximum of its
\* weighted column, and the call does not fail
UnknownKeyAsCost ==
    /\ pc # "threw"
    /\ (pc \in {"separation", "closeness", "rank", "done"}
           /\ Len(Materials) # 0 /\ Len(Keys) # 0) =>
           \A j \in DOMAIN Keys :
               ~InCatalog(Keys[j]) =>
                   /\ IsColumnMin(weightedMatrix, j, idealSolution[j])
                   /\ IsColumnMax(weightedMatrix, j, antiIdealSolution[j])

\* a completed call on a key that its catalog lacks, the two materials
\* differing on it: the material with the lower value is ranked first
UnknownKeyAsCostWitness ==
    /\ pc = "done"
    /\ Len(Materials) = 2 /\ Len(Keys) = 1
    /\ ~InCatalog(Keys[1])
    /\ Lt(idealSolution[1], antiIdealSolution[1])
    /\ Lt(returned[1].originalData[Keys[1]], returned[2].originalData[Keys[1]])

\* the index of the result's material in the material list of the call
InputIndex(result) ==
    CHOOSE k \in DOMAIN Materials : Materials[k].name = result.name

\* C29: the trail is indexed by the input order of the materials, not by
\* rank: the result of the material at index k of the input list has the
\* score D-[k] / (D+[k] + D-[k]), NaN when the denominator is 0, its
\* calculatedValues are row k of the initial matrix, and row k of that matrix
\* holds the data of that material
TrailIndexedByInput ==
    pc = "done" =>
        \A p \in DOMAIN returned :
            LET r == returned[p]
                k == InputIndex(r)
                denominator == Add(r.distanceToIdeal[k], r.distanceToAntiIdeal[k])
            IN  /\ r.originalData = Materials[k]
                /\ IF denominator = Zero THEN isNaN(r.score)
                   ELSE r.score = Quotient(r.distanceToAntiIdeal[k], denominator)
                /\ \A j \in DOMAIN Keys :
                      /\ r.calculatedValues[Keys[j]] = r.initialMatrix[k][j]
                      /\ Keys[j] # CostKey =>
                            r.initialMatrix[k][j] = Materials[k][Keys[j]]
                /\ Len(r.normalizedMatrix) = Len(Materials)
                /\ Len(r.weightedMatrix) = Len(Materials)

\* three materials with three different scores, returned in an order that
\* is not the input order
TrailIndexedByInputWitness ==
    /\ pc = "done"
    /\ Len(returned) = 3
    /\ returned[1].name # Materials[1].name
    /\ returned[3].name # Materials[3].name
    /\ returned[1].score # returned[2].score
    /\ returned[2].score # returned[3].score
    /\ returned[1].distanceToIdeal[1] # returned[1].distanceToIdeal[InputIndex(returned[1])]

\* the two scores are the same number, or both are NaN
SameScore(a, b) ==
    IF isNaN(a) \/ isNaN(b) THEN isNaN(a) /\ isNaN(b)
    ELSE SignOf(JsMinus(a, b)) = 0

\* C30: results with equal scores keep the relative order of the input
\* material list; when every score is NaN the returned order is the input
\* order
TiesKeepInputOrder ==
    pc = "done" =>
        /\ \A p, q \in DOMAIN returned :
              (p < q /\ SameScore(returned[p].score, returned[q].score)) =>
                  InputIndex(returned[p]) < InputIndex(returned[q])
        /\ (\A p \in DOMAIN returned : isNaN(returned[p].score)) =>
              \A p \in DOMAIN returned : returned[p].name = Materials[p].name

\* three materials of which the first two of the input list tie on a score
\* that is a number, behind the third
TiesKeepInputOrderWitness ==
    /\ pc = "done"
    /\ Len(returned) = 3
    /\ returned[1].name = Materials[3].name
    /\ ~isNaN(returned[2].score)
    /\ SameScore(returned[2].score, returned[3].score)
    /\ ~SameScore(returned[1].score, returned[2].score)

\* the step taken is one in which the page invokes the engine
Invokes == invocation'.called /\ invocation' # invocation

\* the arguments give every selected criterion a weight in [0, 1], the
\* weights adding up to 1 within 0.001, and every selected material a cost
\* that is a number >= 0
ArgsAcceptable(a) ==
    /\ \A j \in DOMAIN a.selectedCriteriaKeys :
          LET key == a.selectedCriteriaKeys[j]
          IN  /\ key \in DOMAIN a.weights
              /\ a.weights[key] # NotANumber
              /\ Leq(Zero, a.weights[key])
              /\ Leq(a.weights[key], One)
    /\ LET total == SeqSum([j \in DOMAIN a.selectedCriteriaKeys |->
                               a.weights[a.selectedCriteriaKeys[j]]])
       IN  /\ Leq(Sub(total, One), Rat(1, 1000))
           /\ Leq(Sub(One, total), Rat(1, 1000))
    /\ \A i \in DOMAIN a.selectedMaterialsData :
          LET name == a.selectedMaterialsData[i].name
          IN  /\ name \in DOMAIN a.costs
              /\ a.costs[name] # NotANumber
              /\ Leq(Zero, a.costs[name])

\* C21: every invocation of the engine by the wizard passes weights in
\* [0, 1] that add up to 1 within 0.001 for the selected criteria and a cost
\* >= 0 for every selected material; while the entries of step 5 fail one of
\* these, no step invokes the engine or leaves step 5 for the results
ValidatedInvocation ==
    /\ [][Invokes =>
             /\ wizard.currentStep = 5
             /\ invocation'.args = EngineArgs(wizard)
             /\ ArgsAcceptable(invocation'.args)]_vars
    /\ [][(wizard.currentStep = 5 /\ ~ArgsAcceptable(EngineArgs(wizard))) =>
             /\ wizard'.currentStep = 5
             /\ ~Invokes]_vars

\* the results of a run of two materials on cost and one more criterion,
\* each with the weight 0.5
ValidatedInvocationWitness ==
    /\ wizard.currentStep = 6
    /\ invocation.called
    /\ Len(invocation.args.selectedMaterialsData) = 2
    /\ Len(invocation.args.selectedCriteriaKeys) = 2
    /\ Includes(invocation.args.selectedCriteriaKeys, CostKey)
    /\ \A key \in DOMAIN invocation.args.weights :
          invocation.args.weights[key] = Rat(1, 2)
    /\ ArgsAcceptable(invocation.args)

\* C22 as stated: between the start or a restart and the next restart the
\* engine is invoked at most once, and exactly once when the results step is
\* shown
OncePerRun ==
    /\ Invocations <= 1
    /\ wizard.currentStep = 6 => Invocations = 1

\* C22: the engine is invoked exactly once on each passage from step 5 to
\* step 6 and at no other moment, so a run in which the user comes back from
\* the results with Precedent invokes it once more for each return to step 6;
\* the results step is never shown before a first invocation
OncePerPassage ==
    /\ [][/\ Invokes <=> (wizard.currentStep = 5 /\ wizard'.currentStep = 6)
          /\ Invokes => Invocations' = Invocations + 1
          /\ ~Invokes => Invocations' \in {Invocations, 0}]_vars
    /\ [](wizard.currentStep = 6 => Invocations >= 1)

OncePerPassageWitness ==
    /\ wizard.currentStep = 6
    /\ Invocations = 2
    /\ prevs = 1

\* rowHeaders[rowIndex] || `Matériau ${rowIndex + 1}`: the first cell of a row
\* of the details tables
RowLabel(rowHeaders, rowIndex) ==
    IF rowIndex \in DOMAIN rowHeaders THEN rowHeaders[rowIndex] ELSE "Matériau"

\* the material whose data row i of the matrices of the last invocation
\* holds: the engine builds row i from selectedMaterialsData[i]
MaterialOfRow(i) == invocation.args.selectedMaterialsData[i].name

\* C23: in the details of step 6 the label of row i of the matrices and of
\* entry i of D+ and D- is the name of the material whose data the row holds,
\* whatever the order in which the materials were ticked
LabelsNameTheirRows ==
    (wizard.currentStep = 6 /\ wizard.calculationDetails # Null) =>
        LET details == wizard.calculationDetails[1]
        IN  \A i \in DOMAIN details.initialMatrix \cup DOMAIN details.distanceToIdeal :
                RowLabel(wizard.selectedMaterialNames, i) = MaterialOfRow(i)

\* handleSuggestCost has started a call in this step
RequestsSuggestion == \E name \in DOMAIN pending : pending'[name] > pending[name]

NoSuggestionShown(w) == w.costSuggestions = NoTexts /\ w.isSuggestingCost = NoFlags

\* C24: from the start and from every restart on, costSuggestions and
\* isSuggestingCost stay empty until a suggestion is requested; a call that
\* was started before a restart and completes after it writes no entry
NoStaleSuggestion ==
    [][(NoSuggestionShown(wizard) /\ ~RequestsSuggestion)
           => NoSuggestionShown(wizard')]_vars

\* the keys of the list are keys of the catalog
KeysWithin(keys, catalog) ==
    \A p \in DOMAIN keys : \E c \in DOMAIN catalog : catalog[c].key = keys[p]

\* C26: at every invocation of the engine by the wizard each selected key is
\* a key of the catalog passed with it (selectableCriteria), also after the
\* user went back, changed the network type or the subtype, or restarted
SelectedKeysInCatalog ==
    /\ [][Invokes =>
             /\ invocation'.args.selectedCriteriaKeys = wizard.selectedCriteriaKeys
             /\ invocation'.args.allCriteriaDefinition = wizard.selectableCriteria
             /\ KeysWithin(invocation'.args.selectedCriteriaKeys,
                           invocation'.args.allCriteriaDefinition)]_vars
    /\ [](KeysWithin(wizard.selectedCriteriaKeys, wizard.selectableCriteria))

\* an invocation without "temp" in its catalog, by a user who went back from
\* the criteria to the subtype
SelectedKeysInCatalogWitness ==
    /\ invocation.called
    /\ wizard.currentStep = 6
    /\ prevs = 2
    /\ wizard.selectedSubtype = Some("EF")
    /\ Len(invocation.args.selectedCriteriaKeys) = 2
    /\ ~KeysWithin(<<"temp">>, invocation.args.allCriteriaDefinition)
    /\ KeysWithin(invocation.args.selectedCriteriaKeys, invocation.args.allCriteriaDefinition)

\* case 6: !topsisResults || topsisResults.length === 0 || !calculationDetails
NoResultToDisplay(w) ==
    \/ w.topsisResults = Null
    \/ Len(w.topsisResults[1]) = 0
    \/ w.calculationDetails = Null

\* C27: the wizard never invokes the engine with an empty material list or
\* an empty key list, whatever the user selected, changed, went back over or
\* restarted before; and whenever step 6 is shown topsisResults is a
\* non-empty list, so that the 'no result to display' branch is not taken
NeverInvokedEmpty ==
    /\ [][Invokes =>
             /\ invocation'.args = EngineArgs(wizard)
             /\ Len(invocation'.args.selectedMaterialsData) > 0
             /\ Len(invocation'.args.selectedCriteriaKeys) > 0]_vars
    /\ [](wizard.currentStep = 6 =>
             /\ ~NoResultToDisplay(wizard)
             /\ wizard.topsisResults[1] = RunAlone(invocation.args)
             /\ Len(wizard.topsisResults[1]) = Len(invocation.args.selectedMaterialsData))

\* results shown for one material, by a user who went back from the criteria
\* to the subtype, which emptied the selection of materials
NeverInvokedEmptyWitness ==
    /\ wizard.currentStep = 6
    /\ prevs = 2
    /\ wizard.selectedSubtype = Some("ECS")
    /\ Len(wizard.topsisResults[1]) = 1
    /\ Len(invocation.args.selectedCriteriaKeys) = 2

\* C28: currentStep is always one of 1..6; it goes down by one only above
\* step 1 (Precedent), up by one only below step 6 and only when
\* handleNextStep accepts the entries of the step (a refused Suivant leaves it
\* as it is), and back to 1 only by Recommencer at step 6
StepWithinBounds ==
    /\ [](wizard.currentStep \in 1..6)
    /\ [][LET step == wizard.currentStep
          IN  \/ wizard'.currentStep = step
              \/ /\ wizard'.currentStep = step + 1
                 /\ step < 6
                 /\ wizard' = AfterNextStep(wizard).state
              \/ /\ wizard'.currentStep = step - 1
                 /\ step > 1
              \/ /\ wizard'.currentStep = 1
                 /\ step = 6
                 /\ wizard'.topsisResults = Null]_vars
    /\ [][AfterNextStep(wizard).state.currentStep = wizard.currentStep
             => wizard'.currentStep # wizard.currentStep + 1]_vars

\* back on step 5 from the results, with entries that handleNextStep refuses
StepWithinBoundsWitness ==
    /\ wizard.currentStep = 5
    /\ prevs = 2
    /\ invocation.called
    /\ wizard.topsisResults # Null
    /\ AfterNextStep(wizard).state.currentStep = 5

====
